---------------------------- MODULE Spec2Model ----------------------------
(***************************************************************************)
(* Primerool: coordinate transformation (app.py, ensembl_api.py) and the   *)
(* junction-spanning primer design (primer_junction.py, primer_utils.py).  *)
(*                                                                         *)
(* Genomic intervals are pairs <<start, end>>, 1-based and inclusive.      *)
(* Spliced coordinates are pairs <<start, end>>, 0-based, end-exclusive.   *)
(* Nucleotide sequences are TLA+ sequences of one-character strings.       *)
(* Temperatures and percentages are integers in tenths (58.0 is 580).      *)
(***************************************************************************)
EXTENDS Integers, Sequences, FiniteSets, TLC

VARIABLES
    tpc,        \* position of the transcript request: start/blocks/junctions/done
    tinfo,      \* TranscriptInfo: [strand, exons, cds]
    feature,    \* feature selector handed to _blocks_for_spliced_sequence
    blocks,     \* result of _blocks_for_spliced_sequence
    junctions,  \* result of _junctions_from_blocks
    ann,        \* result of cds_annotations_in_transcript_coords
    raw,        \* sequence fetched from the Sequence Service
    full,       \* the sequence being reverse-complemented
    rc_count,   \* how many times the reverse complement was applied
    \* design_junction_primer_pairs: arguments
    template, junction_pos, overlap_min, overlap_max, product_min, product_max,
    primer_params, left_pad, right_pad, max_candidates,
    \* design_junction_primer_pairs: locals
    dpc,               \* position in the call: call/scoring/search/pairing/done
    win_start,         \* template offset of the local window
    local,             \* template[win_start:win_end]
    j_local,           \* junction offset inside the window
    candidates,        \* junction-spanning spans (start, end), window-local
    scored,            \* (score, span, analysis) sorted by score and truncated
    right_candidates,  \* parsed answers of the right-primer search
    seen,              \* de-duplication keys of the pairing loop
    result,            \* what the call returned (or raised)
    \* the Primer Oracle (primer3) and what was asked of it
    oracle,            \* [tm_base, search_base, right]: how it answers in this call
    oracle_log,        \* the Oracle operations issued so far, in order
    pair_trace,        \* every (left, right) combination visited and its fate
    \* ensembl_api.py: the Annotation and Sequence Services
    data,              \* the answer to GET /lookup/id/{id}?expand=1
    flank_args,        \* [upstream_bp, downstream_bp, use_cds_anchor]
    genome,            \* the chromosome the Sequence Service reads from
    region_log,        \* the get_region_sequence calls made, in order
    flank,             \* [upstream, downstream] returned by get_flanking_sequence
    \* app.py: the /get_sequence route
    request,           \* the JSON body: gene_name, transcript_id, include_introns, include_utr
    ensembl,           \* how Ensembl answers this request: [found, failing]
    response,          \* the route's answer: status, error and payload
    \* ensembl_api.py: the memoised lookups search_gene and get_transcript_details
    cache,             \* per function, the lru_cache entries, least recently used first
    queries,           \* how many requests the Annotation Service has received
    lookups,           \* how many lookup calls were made
    last_call,         \* the latest lookup call: function, key, answer and outcome
    \* blast_api.py: run_blast and poll_blast
    bpc,               \* position of the BLAST call: submit/poll/retrieve/returned/raised
    blast,             \* [caller, max_wait, elapsed]: the arguments and the loop variable
    blast_log,         \* sleeps and requests to NCBI so far, in order
    blast_result,      \* what the call returned or raised
    \* ensembl_api.py: _get and its rate limiter; times are in milliseconds
    clock,             \* time.time()
    last_request_time, \* _last_request_time
    get_calls,         \* how many _get calls were made
    get_log            \* the HTTP requests issued: [start, received, status, retry]

tvars == <<tpc, tinfo, feature, blocks, junctions, ann>>
svars == <<raw, full, rc_count>>
avars == <<junction_pos, overlap_min, overlap_max, product_min, product_max,
           primer_params, left_pad, right_pad, max_candidates, oracle>>
dvars == <<template, avars, dpc, win_start, local, j_local, candidates, scored,
           right_candidates, seen, result, oracle_log, pair_trace>>
rvars == <<request, ensembl, response>>
cvars == <<cache, queries, lookups, last_call>>
bvars == <<bpc, blast, blast_log, blast_result>>
gvars == <<clock, last_request_time, get_calls, get_log>>
evars == <<data, flank_args, genome, region_log, flank, rvars, cvars, bvars, gvars>>
vars == <<tvars, svars, dvars, evars>>

-----------------------------------------------------------------------------
(* Bounds of the model *)

MaxCoord == 5      \* genomic coordinates are 1..MaxCoord
MaxExons == 3      \* exons per transcript
MaxCds == 2        \* CDS intervals per transcript
MaxSeqLen == 3     \* length of a fetched sequence
MaxBlockCoord == 3 \* genomic coordinates of the block-ordering scenarios
MaxBlocks == 3     \* intervals per feature in the block-ordering scenarios
MaxFlankExons == 2 \* exons per transcript in the flanking scenarios
MaxFlankBp == 2    \* upstream_bp and downstream_bp are 0..MaxFlankBp

-----------------------------------------------------------------------------
(* Generic helpers: Python built-ins used by the code *)

Max(a, b) == IF a >= b THEN a ELSE b
Min(a, b) == IF a <= b THEN a ELSE b
Abs(x) == IF x < 0 THEN -x ELSE x

Range(s) == {s[i] : i \in DOMAIN s}

\* list[::-1] and reversed(list)
Reverse(s) == [i \in 1..Len(s) |-> s[Len(s) + 1 - i]]

\* tuple comparison of Python: lexicographic
PairLess(a, b) == a[1] < b[1] \/ (a[1] = b[1] /\ a[2] < b[2])

RECURSIVE InsertPair(_, _)
InsertPair(s, x) ==
    IF s = <<>> THEN <<x>>
    ELSE IF PairLess(x, Head(s)) THEN <<x>> \o s
    ELSE <<Head(s)>> \o InsertPair(Tail(s), x)

\* sorted(list of tuples): stable, ascending
RECURSIVE SortedPairs(_)
SortedPairs(s) ==
    IF s = <<>> THEN <<>>
    ELSE InsertPair(SortedPairs(SubSeq(s, 1, Len(s) - 1)), s[Len(s)])

RECURSIVE SumLengths(_)
SumLengths(s) ==
    IF s = <<>> THEN 0
    ELSE (Head(s)[2] - Head(s)[1] + 1) + SumLengths(Tail(s))

-----------------------------------------------------------------------------
(* app.py: blocks and junctions *)

\* tinfo.get(feature, [])
FeatureOf(t, f) == IF f \in DOMAIN t THEN t[f] ELSE <<>>

\* variant: on strand '-' the intervals are reversed as given, not sorted
BlocksReversedUnsorted(t, f) ==
    LET intervals == FeatureOf(t, f) IN
    IF intervals = <<>> THEN <<>>
    ELSE IF t.strand = "-" THEN Reverse(intervals)
    ELSE SortedPairs(intervals)

BlocksForSplicedSequence(t, f) ==
    LET intervals == FeatureOf(t, f) IN
    IF intervals = <<>> THEN <<>>
    ELSE IF t.strand = "-" THEN Reverse(SortedPairs(intervals))
    ELSE SortedPairs(intervals)

\* variant: the label is built from 0-based exon numbers
JunctionLabelZeroBased(i) == "Exon " \o ToString(i) \o "|" \o ToString(i + 1)

JunctionLabel(i) == "Exon " \o ToString(i + 1) \o "|" \o ToString(i + 2)

\* the for loop of _junctions_from_blocks: i is the 0-based index of the
\* next block, cum the running length, acc the junctions so far
RECURSIVE JunctionsLoop(_, _, _, _)
JunctionsLoop(bs, i, cum, acc) ==
    IF i >= Len(bs) THEN acc
    ELSE LET block_len == bs[i + 1][2] - bs[i + 1][1] + 1
             cum2 == cum + block_len
         IN JunctionsLoop(bs, i + 1, cum2,
               IF i < Len(bs) - 1
               THEN Append(acc, [index |-> i, pos |-> cum2, label |-> JunctionLabel(i)])
               ELSE acc)

\* variant: a junction is emitted after every block, the last one included
JunctionsAfterEveryBlock(bs) ==
    [i \in 1..Len(bs) |->
        [index |-> i - 1, pos |-> SumLengths(SubSeq(bs, 1, i)), label |-> JunctionLabel(i - 1)]]

\* variant: the running length follows genomic order, not transcript order
JunctionsFromSortedBlocks(bs) == JunctionsLoop(SortedPairs(bs), 0, 0, <<>>)

JunctionsFromBlocks(bs) == JunctionsLoop(bs, 0, 0, <<>>)

-----------------------------------------------------------------------------
(* ensembl_api.py: get_transcript_details *)

\* the part of an exon inside [cds_genomic_start, cds_genomic_end]
CdsPart(ex, cs, ce) ==
    LET ov_start == Max(ex[1], cs)
        ov_end == Min(ex[2], ce)
    IN IF ov_start <= ov_end THEN << <<ov_start, ov_end>> >> ELSE <<>>

\* variant: the part below the CDS ends on the first CDS base
LowerPartInclusive(ex, cs) ==
    IF ex[1] < cs
    THEN LET part_end == Min(ex[2], cs)
         IN IF ex[1] <= part_end THEN << <<ex[1], part_end>> >> ELSE <<>>
    ELSE <<>>

\* the part of an exon below cds_genomic_start: utr5 on strand '+' (where
\* the code also asks for ex_end >= ex_start, which the inner test implies),
\* utr3 on strand '-'
LowerPart(ex, cs) ==
    IF ex[1] < cs
    THEN LET part_end == Min(ex[2], cs - 1)
         IN IF ex[1] <= part_end THEN << <<ex[1], part_end>> >> ELSE <<>>
    ELSE <<>>

\* the part of an exon above cds_genomic_end: utr3 on strand '+', utr5 on '-'
UpperPart(ex, ce) ==
    IF ex[2] > ce
    THEN LET part_start == Max(ex[1], ce + 1)
         IN IF part_start <= ex[2] THEN << <<part_start, ex[2]>> >> ELSE <<>>
    ELSE <<>>

\* the loop over the sorted exons; acc is [cds, utr5, utr3]
RECURSIVE DeriveFeatures(_, _, _, _, _, _)
DeriveFeatures(exons, i, strand, cs, ce, acc) ==
    IF i > Len(exons) THEN acc
    ELSE LET ex == exons[i]
             low == LowerPart(ex, cs)
             high == UpperPart(ex, ce)
         IN DeriveFeatures(exons, i + 1, strand, cs, ce,
               [cds |-> acc.cds \o CdsPart(ex, cs, ce),
                utr5 |-> acc.utr5 \o (IF strand = "+" THEN low ELSE high),
                utr3 |-> acc.utr3 \o (IF strand = "+" THEN high ELSE low)])

\* the dictionary get_transcript_details returns for a found transcript;
\* identifiers, display name and chromosome are passed through and left out
TranscriptDetails(d) ==
    LET strand == IF d.strand = 1 THEN "+" ELSE "-"
        exons == SortedPairs(d.Exon)
        none == [cds |-> <<>>, utr5 |-> <<>>, utr3 |-> <<>>]
        f == IF d.Translation # <<>> /\ d.Translation[1] # 0 /\ d.Translation[2] # 0
             THEN DeriveFeatures(exons, 1, strand, d.Translation[1], d.Translation[2], none)
             ELSE none
    IN [strand |-> strand, exons |-> exons, cds |-> SortedPairs(f.cds),
        utr5 |-> SortedPairs(f.utr5), utr3 |-> SortedPairs(f.utr3),
        utr |-> SortedPairs(f.utr5 \o f.utr3)]

-----------------------------------------------------------------------------
(* ensembl_api.py: cds_annotations_in_transcript_coords *)

\* first while loop: skip CDS intervals that end before the exon starts
RECURSIVE SkipCds(_, _, _)
SkipCds(cds_sorted, j, exon_start) ==
    IF j < Len(cds_sorted) /\ cds_sorted[j + 1][2] < exon_start
    THEN SkipCds(cds_sorted, j + 1, exon_start)
    ELSE j

\* second while loop: every CDS interval that starts inside or before the
\* exon end contributes its overlap with the exon
RECURSIVE OverlapLoop(_, _, _, _, _, _)
OverlapLoop(cds_sorted, k, exon_start, exon_end, exon_offset, acc) ==
    IF k < Len(cds_sorted) /\ cds_sorted[k + 1][1] <= exon_end
    THEN LET cds_start == cds_sorted[k + 1][1]
             cds_end == cds_sorted[k + 1][2]
             ov_start == Max(exon_start, cds_start)
             ov_end == Min(exon_end, cds_end)
             rel_start == exon_offset + (ov_start - exon_start)
             rel_end == exon_offset + (ov_end - exon_start) + 1
         IN OverlapLoop(cds_sorted, k + 1, exon_start, exon_end, exon_offset,
               IF ov_start <= ov_end THEN Append(acc, <<rel_start, rel_end>>) ELSE acc)
    ELSE acc

RECURSIVE ExonLoop(_, _, _, _, _, _)
ExonLoop(exons_sorted, cds_sorted, e, j, exon_offset, acc) ==
    IF e > Len(exons_sorted) THEN acc
    ELSE LET exon_start == exons_sorted[e][1]
             exon_end == exons_sorted[e][2]
             exon_len == exon_end - exon_start + 1
             j2 == SkipCds(cds_sorted, j, exon_start)
         IN ExonLoop(exons_sorted, cds_sorted, e + 1, j2, exon_offset + exon_len,
               OverlapLoop(cds_sorted, j2, exon_start, exon_end, exon_offset, acc))

\* variant: the reflected bounds are not swapped
ReflectUnswapped(a, total_len) ==
    [i \in 1..Len(a) |-> <<total_len - a[i][1], total_len - a[i][2]>>]

Reflect(a, total_len) == [i \in 1..Len(a) |-> <<total_len - a[i][2], total_len - a[i][1]>>]

\* variant: the reflected list is not sorted again
CdsAnnotationsUnsorted(t) ==
    IF t.exons = <<>> \/ t.cds = <<>> THEN <<>>
    ELSE LET exons_sorted == SortedPairs(t.exons)
             cds_sorted == SortedPairs(t.cds)
             fwd == ExonLoop(exons_sorted, cds_sorted, 1, 0, 0, <<>>)
         IN IF t.strand = "-"
            THEN Reflect(fwd, SumLengths(exons_sorted))
            ELSE fwd

\* variant: the CDS list is walked in the order it was given
CdsAnnotationsCdsUnsorted(t) ==
    IF t.exons = <<>> \/ t.cds = <<>> THEN <<>>
    ELSE LET exons_sorted == SortedPairs(t.exons)
             fwd == ExonLoop(exons_sorted, t.cds, 1, 0, 0, <<>>)
         IN IF t.strand = "-"
            THEN SortedPairs(Reflect(fwd, SumLengths(exons_sorted)))
            ELSE fwd

CdsAnnotationsInTranscriptCoords(t) ==
    IF t.exons = <<>> \/ t.cds = <<>> THEN <<>>
    ELSE LET exons_sorted == SortedPairs(t.exons)
             cds_sorted == SortedPairs(t.cds)
             fwd == ExonLoop(exons_sorted, cds_sorted, 1, 0, 0, <<>>)
         IN IF t.strand = "-"
            THEN SortedPairs(Reflect(fwd, SumLengths(exons_sorted)))
            ELSE fwd

-----------------------------------------------------------------------------
(* ensembl_api.py: reverse complement *)

\* str.maketrans("ACGTacgt", "TGCAtgca"); other characters are kept
Comp(c) ==
    CASE c = "A" -> "T" [] c = "C" -> "G" [] c = "G" -> "C" [] c = "T" -> "A"
      [] c = "a" -> "t" [] c = "c" -> "g" [] c = "g" -> "c" [] c = "t" -> "a"
      [] OTHER -> c

\* variant: the substitution is not case-preserving
TranslateUpper(s) ==
    [i \in 1..Len(s) |->
        CASE s[i] \in {"A", "a"} -> "T" [] s[i] \in {"C", "c"} -> "G"
          [] s[i] \in {"G", "g"} -> "C" [] s[i] \in {"T", "t"} -> "A"
          [] OTHER -> s[i]]

\* seq.translate(comp)
Translate(s) == [i \in 1..Len(s) |-> Comp(s[i])]

\* seq.translate(comp)[::-1]
ReverseComplement(s) == Reverse(Translate(s))

-----------------------------------------------------------------------------
(* primer_utils.py *)

\* program constants, in tenths where they are temperatures or percentages
DefaultMinSize == 18
DefaultMaxSize == 25
DefaultOptTm == 620
GcLow == 350
GcHigh == 650
GcPenalty == 50
MaxTmDiff == 50
MaxPairs == 10
ProductRelaxDown == 50
ProductFloor == 50
ProductRelaxUp == 300
ProductCeiling == 1000

\* str.upper() on one character
Upper(c) ==
    CASE c = "a" -> "A" [] c = "c" -> "C" [] c = "g" -> "G" [] c = "t" -> "T"
      [] c = "n" -> "N" [] OTHER -> c

\* (seq or "").upper().replace(" ", "")
Normalize(s) == SelectSeq([i \in 1..Len(s) |-> Upper(s[i])], LAMBDA c : c # " ")

\* s[a:b] for 0 <= a and 0 <= b
Slice(s, a, b) == SubSeq(s, a + 1, Min(b, Len(s)))

\* s[:m], m of either sign
Truncate(s, m) ==
    IF m >= 0 THEN SubSeq(s, 1, Min(m, Len(s)))
    ELSE SubSeq(s, 1, Max(0, Len(s) + m))

Count(s, S) == Cardinality({i \in 1..Len(s) : s[i] \in S})

\* round(a / b) to the nearest integer, ties to even, for a >= 0 and b > 0
RoundDiv(a, b) ==
    LET q == a \div b
        r == a % b
    IN IF 2 * r < b THEN q
       ELSE IF 2 * r > b THEN q + 1
       ELSE IF q % 2 = 0 THEN q ELSE q + 1

\* _round_or_none(_oligo_gc(seq), 1), in tenths of a percent
OligoGc(seq) ==
    IF seq = <<>> THEN 0
    ELSE RoundDiv(1000 * Count(seq, {"G", "C"}), Len(seq))

\* primer3.bindings.calc_tm, rounded to one decimal: a pure function of the
\* oligo. The Oracle of one call is drawn from the family
\* tm_base + 2.0 per A/T + 4.0 per G/C.
CalcTm(seq) ==
    oracle.tm_base + 20 * Count(seq, {"A", "T"}) + 40 * Count(seq, {"G", "C"})

\* the Tm primer3.design_primers reports for a primer it picked: a pure
\* function of the oligo as well, computed with the search's own settings
SearchTm(seq) ==
    oracle.search_base + 20 * Count(seq, {"A", "T"}) + 40 * Count(seq, {"G", "C"})

\* analyze_primer: hairpin and homodimer are values of the Oracle that no
\* decision of the code reads; they are left out of the record
AnalyzePrimer(seq) ==
    LET sq == Normalize(seq)
    IN [sequence |-> sq, length |-> Len(sq), gc_percent |-> OligoGc(sq), tm |-> CalcTm(sq)]

-----------------------------------------------------------------------------
(* ensembl_api.py: get_region_sequence and get_flanking_sequence *)

\* str.upper() on a sequence
UpperSeq(s) == [i \in 1..Len(s) |-> Upper(s[i])]

\* min(s for s, e in a) and max(e for s, e in a), for a non-empty list
MinStart(a) == CHOOSE x \in {a[i][1] : i \in 1..Len(a)} : \A i \in 1..Len(a) : x <= a[i][1]
MaxEnd(a) == CHOOSE x \in {a[i][2] : i \in 1..Len(a)} : \A i \in 1..Len(a) : x >= a[i][2]

\* get_region_sequence(...) or "": nothing is requested when end < start;
\* the Sequence Service answers with the bases of the region, or with an
\* error (None, here the empty sequence) for a region that is not on the
\* chromosome
RegionSequenceOrEmpty(g, start, end) ==
    IF end < start THEN <<>>
    ELSE IF start < 1 \/ end > Len(g) THEN <<>>
    ELSE SubSeq(g, start, end)

\* the anchor span (anchor_start, anchor_end)
Anchor(t, use_cds_anchor) ==
    IF use_cds_anchor /\ t.cds # <<>>
    THEN <<MinStart(t.cds), MaxEnd(t.cds)>>
    ELSE <<MinStart(t.exons), MaxEnd(t.exons)>>

\* variant: the region below the anchor is not clamped to coordinate 1
LowerRegionUnclamped(anchor_start, bp) == <<anchor_start - bp, anchor_start - 1>>

\* the bp bases below the anchor: max(1, anchor_start - bp) .. anchor_start - 1
LowerRegion(anchor_start, bp) == <<Max(1, anchor_start - bp), anchor_start - 1>>

\* the bp bases above the anchor: anchor_end + 1 .. anchor_end + bp
UpperRegion(anchor_end, bp) == <<anchor_end + 1, anchor_end + bp>>

\* one get_region_sequence call of get_flanking_sequence: which flank it is
\* for, the region asked for, what came back and what is returned for it
FlankCall(role, g, region, strand) ==
    LET fetched == RegionSequenceOrEmpty(g, region[1], region[2])
    IN [role |-> role, start |-> region[1], end |-> region[2], raw |-> fetched,
        seq |-> IF strand = "+" THEN fetched ELSE UpperSeq(ReverseComplement(fetched))]

\* the calls get_flanking_sequence makes, upstream first
FlankCalls(t, a, g) ==
    IF t.exons = <<>> THEN <<>>
    ELSE LET anchor == Anchor(t, a.use_cds_anchor)
             up == IF t.strand = "+" THEN LowerRegion(anchor[1], a.upstream_bp)
                   ELSE UpperRegion(anchor[2], a.upstream_bp)
             down == IF t.strand = "+" THEN UpperRegion(anchor[2], a.downstream_bp)
                     ELSE LowerRegion(anchor[1], a.downstream_bp)
         IN (IF a.upstream_bp > 0 THEN <<FlankCall("upstream", g, up, t.strand)>> ELSE <<>>)
            \o (IF a.downstream_bp > 0 THEN <<FlankCall("downstream", g, down, t.strand)>>
                ELSE <<>>)

\* the sequence returned for one flank: "" when no call was made for it
FlankOf(calls, role) ==
    LET made == SelectSeq(calls, LAMBDA c : c.role = role)
    IN IF made = <<>> THEN <<>> ELSE made[1].seq

-----------------------------------------------------------------------------
(* primer_junction.py: design_junction_primer_pairs *)

Clamp(v, lo, hi) == Max(lo, Min(hi, v))

\* args.get("PRIMER_MIN_SIZE", 18) after args.update(primer_params)
PrimerMin(pp) == IF "PRIMER_MIN_SIZE" \in DOMAIN pp THEN pp.PRIMER_MIN_SIZE ELSE DefaultMinSize
PrimerMax(pp) == IF "PRIMER_MAX_SIZE" \in DOMAIN pp THEN pp.PRIMER_MAX_SIZE ELSE DefaultMaxSize
OptTm(pp) == IF "PRIMER_OPT_TM" \in DOMAIN pp THEN pp.PRIMER_OPT_TM ELSE DefaultOptTm

\* the relaxed product range handed to the Oracle
ProductMinActual(pmin) == Max(ProductFloor, pmin - ProductRelaxDown)
ProductMaxActual(pmax) == Min(ProductCeiling, pmax + ProductRelaxUp)

WinStart(tpl, jp, lp) == Clamp(jp - lp, 0, Len(tpl))
WinEnd(tpl, jp, rp) == Clamp(jp + rp, 0, Len(tpl))
LocalWindow(tpl, jp, lp, rp) == Slice(tpl, WinStart(tpl, jp, lp), WinEnd(tpl, jp, rp))

\* SEQUENCE_INCLUDED_REGION of the right search: (start, length)
\* variant: the right search covers the whole window
RightIncludedRegionWholeWindow(jl, n) == <<0, n>>

RightIncludedRegion(jl, n) == <<jl, n - jl>>

\* the double loop over left_ov (outer) and right_ov (inner)
RECURSIVE CandidateLoop(_, _, _, _)
CandidateLoop(w, left_ov, right_ov, acc) ==
    IF left_ov > w.overlap_max THEN acc
    ELSE IF right_ov > w.overlap_max THEN CandidateLoop(w, left_ov + 1, w.overlap_min, acc)
    ELSE LET L == left_ov + right_ov
             start == w.j_local - left_ov
             end == w.j_local + right_ov
         IN CandidateLoop(w, left_ov, right_ov + 1,
               IF L < w.primer_min \/ L > w.primer_max THEN acc
               ELSE IF start < 0 \/ end > w.n THEN acc
               ELSE Append(acc, <<start, end>>))

\* variant: spans are not checked against the window
GenerateCandidatesUnchecked(jl, n, ov_min, ov_max, pmin, pmax) ==
    CandidateLoop([j_local |-> jl, n |-> n + ov_max, overlap_min |-> ov_min,
                   overlap_max |-> ov_max, primer_min |-> pmin, primer_max |-> pmax],
                  ov_min, ov_min, <<>>)

\* variant: overlap_max is raised to overlap_min before the loops
GenerateCandidatesRaisedMax(jl, n, ov_min, ov_max, pmin, pmax) ==
    CandidateLoop([j_local |-> jl, n |-> n, overlap_min |-> ov_min,
                   overlap_max |-> Max(ov_min, ov_max),
                   primer_min |-> pmin, primer_max |-> pmax],
                  ov_min, ov_min, <<>>)

\* variant: the overlap ranges leave out overlap_max
GenerateCandidatesExclusiveMax(jl, n, ov_min, ov_max, pmin, pmax) ==
    CandidateLoop([j_local |-> jl, n |-> n, overlap_min |-> ov_min,
                   overlap_max |-> ov_max - 1,
                   primer_min |-> pmin, primer_max |-> pmax],
                  ov_min, ov_min, <<>>)

GenerateCandidates(jl, n, ov_min, ov_max, pmin, pmax) ==
    CandidateLoop([j_local |-> jl, n |-> n, overlap_min |-> ov_min, overlap_max |-> ov_max,
                   primer_min |-> pmin, primer_max |-> pmax],
                  ov_min, ov_min, <<>>)

\* score of one analysed candidate
Score(a, opt_tm) ==
    Abs(a.tm - opt_tm) + (IF a.gc_percent < GcLow \/ a.gc_percent > GcHigh THEN GcPenalty ELSE 0)

ScoreCandidate(loc, span, opt_tm) ==
    LET a == AnalyzePrimer(Slice(loc, span[1], span[2]))
    IN [score |-> Score(a, opt_tm), span |-> span, a |-> a]

\* list.sort(key=score): stable, ascending
RECURSIVE InsertByScore(_, _)
InsertByScore(s, x) ==
    IF s = <<>> THEN <<x>>
    ELSE IF x.score < Head(s).score THEN <<x>> \o s
    ELSE <<Head(s)>> \o InsertByScore(Tail(s), x)

RECURSIVE SortByScore(_)
SortByScore(s) ==
    IF s = <<>> THEN <<>>
    ELSE InsertByScore(SortByScore(SubSeq(s, 1, Len(s) - 1)), s[Len(s)])

ScoredCandidates(loc, cands, opt_tm, max_cand) ==
    Truncate(SortByScore([i \in 1..Len(cands) |-> ScoreCandidate(loc, cands[i], opt_tm)]),
             max_cand)

\* _parse_right_interval: PRIMER_RIGHT_i is (right_end, length), right_end
\* the 0-based index of the primer's last template base
ParseRightInterval(pos) ==
    IF pos = <<>> THEN <<>>
    ELSE <<pos[1] - pos[2] + 1, pos[1] + 1>>

\* the loop collecting right candidates from the Oracle's answer
RECURSIVE CollectRight(_, _, _)
CollectRight(right_out, i, acc) ==
    IF i >= Len(right_out) THEN acc
    ELSE LET e == right_out[i + 1]
             riv == ParseRightInterval(e.pos)
         IN CollectRight(right_out, i + 1,
               IF e.sequence = <<>> THEN acc
               ELSE IF riv = <<>> THEN acc
               ELSE Append(acc, [seq |-> e.sequence, interval_local |-> riv,
                                 tm |-> e.tm, gc |-> e.gc, idx |-> i]))

\* variant: the difference is taken without abs()
TmRejectedSigned(left_tm, right_tm) == left_tm - right_tm > MaxTmDiff

\* variant: a difference of exactly max_tm_diff is rejected too
TmRejectedInclusive(left_tm, right_tm) == Abs(left_tm - right_tm) >= MaxTmDiff

\* abs(left_tm - right_tm) > max_tm_diff
TmRejected(left_tm, right_tm) == Abs(left_tm - right_tm) > MaxTmDiff

\* rc["interval_local"][1] - start
ProductSize(rc, start) == rc.interval_local[2] - start

\* variant: the upper bound of the product range is not checked
SizeRejectedLowerOnly(product_size, pmin, pmax) == product_size < pmin

\* product_size < product_min or product_size > product_max
SizeRejected(product_size, pmin, pmax) == product_size < pmin \/ product_size > pmax

DedupKey(left_seq, right_seq, product_size) == <<left_seq, right_seq, product_size>>

\* variant: the key is never recorded
RememberNothing(seen_keys, key) == seen_keys

\* seen.add(key)
Remember(seen_keys, key) == seen_keys \cup {key}

\* variant: the loop stops one pair late
CapReachedLate(pairs) == Len(pairs) > MaxPairs

\* len(pairs_out) >= 10
CapReached(pairs) == Len(pairs) >= MaxPairs

\* variant: the right interval is reported in window coordinates
BuildPairRightLocal(c, sc, rc, left_seq, product_size, number) ==
    LET left_interval_full == <<c.win_start + sc.span[1], c.win_start + sc.span[2]>>
        right_a == AnalyzePrimer(rc.seq)
    IN [pair_number |-> number,
        junction_pos |-> c.junction_pos,
        junction_spanning |-> "left",
        left |-> [sequence |-> sc.a.sequence, length |-> sc.a.length,
                  gc_percent |-> sc.a.gc_percent, tm |-> sc.a.tm,
                  interval |-> left_interval_full,
                  position |-> <<left_interval_full[1],
                                 left_interval_full[2] - left_interval_full[1]>>],
        right |-> [sequence |-> right_a.sequence, length |-> right_a.length,
                   gc_percent |-> right_a.gc_percent, tm |-> right_a.tm,
                   interval |-> rc.interval_local,
                   position |-> <<rc.interval_local[1],
                                  rc.interval_local[2] - rc.interval_local[1]>>],
        product_size |-> product_size]

\* variant: the left interval is reported in window coordinates
BuildPairLeftLocal(c, sc, rc, left_seq, product_size, number) ==
    LET left_interval_full == sc.span
        right_interval_full == <<c.win_start + rc.interval_local[1],
                                 c.win_start + rc.interval_local[2]>>
        right_a == AnalyzePrimer(rc.seq)
    IN [pair_number |-> number,
        junction_pos |-> c.junction_pos,
        junction_spanning |-> "left",
        left |-> [sequence |-> sc.a.sequence, length |-> sc.a.length,
                  gc_percent |-> sc.a.gc_percent, tm |-> sc.a.tm,
                  interval |-> left_interval_full,
                  position |-> <<left_interval_full[1],
                                 left_interval_full[2] - left_interval_full[1]>>],
        right |-> [sequence |-> right_a.sequence, length |-> right_a.length,
                   gc_percent |-> right_a.gc_percent, tm |-> right_a.tm,
                   interval |-> right_interval_full,
                   position |-> <<right_interval_full[1],
                                  right_interval_full[2] - right_interval_full[1]>>],
        product_size |-> product_size]

\* the dictionary appended to pairs_out; pair_metrics is a value of the
\* Oracle that no decision of the code reads
BuildPair(c, sc, rc, left_seq, product_size, number) ==
    LET left_interval_full == <<c.win_start + sc.span[1], c.win_start + sc.span[2]>>
        right_interval_full == <<c.win_start + rc.interval_local[1],
                                 c.win_start + rc.interval_local[2]>>
        right_a == AnalyzePrimer(rc.seq)
    IN [pair_number |-> number,
        junction_pos |-> c.junction_pos,
        junction_spanning |-> "left",
        left |-> [sequence |-> sc.a.sequence, length |-> sc.a.length,
                  gc_percent |-> sc.a.gc_percent, tm |-> sc.a.tm,
                  interval |-> left_interval_full,
                  position |-> <<left_interval_full[1],
                                 left_interval_full[2] - left_interval_full[1]>>],
        right |-> [sequence |-> right_a.sequence, length |-> right_a.length,
                   gc_percent |-> right_a.gc_percent, tm |-> right_a.tm,
                   interval |-> right_interval_full,
                   position |-> <<right_interval_full[1],
                                  right_interval_full[2] - right_interval_full[1]>>],
        product_size |-> product_size]

\* one operation asked of the Primer Oracle: analyze, pair_analyze,
\* search_diagnostic or search_right; a search carries its included region
\* (start, length) and the product size range of its arguments
OracleCall(op, region, range) == [op |-> op, region |-> region, product_range |-> range]
Analysis(op) == OracleCall(op, <<>>, <<>>)

Visit(st, li, ri, verdict, number) ==
    Append(st.trace, [li |-> li, ri |-> ri, verdict |-> verdict, pair_number |-> number])

\* the nested pairing loop: li indexes scored (outer), ri right candidates
\* (inner); st carries pairs_out, seen, and the trace of visited combinations.
\* c holds the values the loop reads: local, win_start, junction_pos,
\* product_min, product_max, scored, right
RECURSIVE PairLoop(_, _, _, _)
PairLoop(c, li, ri, st) ==
    IF li > Len(c.scored) THEN st
    ELSE IF ri > Len(c.right)
    THEN IF CapReached(st.pairs) THEN st ELSE PairLoop(c, li + 1, 1, st)
    ELSE LET sc == c.scored[li]
             rc == c.right[ri]
             start == sc.span[1]
             left_seq == Slice(c.local, sc.span[1], sc.span[2])
             left_tm == sc.a.tm
             product_size == ProductSize(rc, start)
             key == DedupKey(left_seq, rc.seq, product_size)
         IN IF TmRejected(left_tm, rc.tm)
            THEN PairLoop(c, li, ri + 1, [st EXCEPT !.trace = Visit(st, li, ri, "tm", 0)])
            ELSE IF SizeRejected(product_size, c.product_min, c.product_max)
            THEN PairLoop(c, li, ri + 1, [st EXCEPT !.trace = Visit(st, li, ri, "size", 0)])
            ELSE IF key \in st.seen
            THEN PairLoop(c, li, ri + 1, [st EXCEPT !.trace = Visit(st, li, ri, "dup", 0)])
            ELSE LET number == Len(st.pairs) + 1
                     st2 == [pairs |-> Append(st.pairs,
                                         BuildPair(c, sc, rc, left_seq, product_size, number)),
                             seen |-> Remember(st.seen, key),
                             trace |-> Visit(st, li, ri, "emit", number),
                             log |-> st.log \o <<Analysis("analyze"), Analysis("pair_analyze")>>]
                 IN IF CapReached(st2.pairs) THEN st2 ELSE PairLoop(c, li, ri + 1, st2)

-----------------------------------------------------------------------------
(* Inputs *)

Strands == {"+", "-"}
Features == {"exons", "cds", "utr5"}
Bases == {"A", "C", "G", "T", "a", "c", "g", "t", "N"}

\* ascending lists of at most k pairwise disjoint intervals within lo..MaxCoord
RECURSIVE DisjointLists(_, _)
DisjointLists(lo, k) ==
    IF k = 0 \/ lo > MaxCoord THEN {<<>>}
    ELSE {<<>>} \cup
         UNION { UNION { { <<(<<s, e>>)>> \o rest : rest \in DisjointLists(e + 1, k - 1) }
                         : e \in s..MaxCoord }
                 : s \in lo..MaxCoord }

RECURSIVE SeqsUpTo(_, _)
SeqsUpTo(S, n) ==
    IF n = 0 THEN {<<>>}
    ELSE LET shorter == SeqsUpTo(S, n - 1)
         IN shorter \cup {Append(s, c) : s \in {x \in shorter : Len(x) = n - 1}, c \in S}

TranscriptInfos ==
    { [strand |-> st, exons |-> ex, cds |-> cd] :
        st \in Strands, ex \in DisjointLists(1, MaxExons), cd \in DisjointLists(1, MaxCds) }

-----------------------------------------------------------------------------
(* Results of design_junction_primer_pairs. error = "" stands for a        *)
(* returned dictionary without an "error" key.                             *)

NoResult == [kind |-> "none", num_pairs |-> 0, pairs |-> <<>>, error |-> ""]
Returned(pairs) == [kind |-> "return", num_pairs |-> Len(pairs), pairs |-> pairs, error |-> ""]
Failed(msg) == [kind |-> "return", num_pairs |-> 0, pairs |-> <<>>, error |-> msg]
Raised(exc) == [kind |-> "raise", num_pairs |-> 0, pairs |-> <<>>, error |-> exc]

NoCandidates == Failed("No junction candidates in window")

\* variant: the failed search is reported with the reason of the empty window
NoRightPrimersAsNoCandidates == Failed("No junction candidates in window")

NoRightPrimers == Failed("No RIGHT primers found in downstream region")

\* app.py, /design_primers in junction mode: what the caller receives for a
\* result (or an exception) of design_junction_primer_pairs
JunctionRouteResponse(out) ==
    IF out.kind = "raise"
    THEN [status |-> 500, error |-> "Junction primer design failed: " \o out.error, pairs |-> <<>>]
    ELSE IF out.num_pairs = 0
    THEN [status |-> 404, pairs |-> <<>>,
          error |-> "No exon-exon junction primer pairs found. Try a different junction or relax constraints."]
    ELSE [status |-> 200, error |-> "", pairs |-> out.pairs]

DesignLocalsUnset ==
    /\ win_start = 0 /\ local = <<>> /\ j_local = 0
    /\ candidates = <<>> /\ scored = <<>> /\ right_candidates = <<>>
    /\ seen = {} /\ result = NoResult
    /\ oracle_log = <<>> /\ pair_trace = <<>>

DesignIdle ==
    /\ dpc = "idle" /\ template = <<>> /\ junction_pos = 0
    /\ overlap_min = 0 /\ overlap_max = 0 /\ product_min = 0 /\ product_max = 0
    /\ primer_params = <<>> /\ left_pad = 0 /\ right_pad = 0 /\ max_candidates = 0
    /\ oracle = [tm_base |-> 0, search_base |-> 0, right |-> <<>>]
    /\ DesignLocalsUnset

NoData == [strand |-> 1, Exon |-> <<>>, Translation |-> <<>>]
NoFlankArgs == [upstream_bp |-> 0, downstream_bp |-> 0, use_cds_anchor |-> FALSE]
NoFlank == [upstream |-> <<>>, downstream |-> <<>>]

NoRequest == [gene_name |-> "", transcript_id |-> "", include_introns |-> FALSE, include_utr |-> FALSE]
NoResponse == [status |-> 0, error |-> "", gene_seq |-> <<>>, spliced_seq |-> <<>>, spliced_exons_seq |-> <<>>, annotations |-> <<>>]
AlwaysAnswers == [found |-> TRUE, failing |-> {}]

RouteIdle == request = NoRequest /\ ensembl = AlwaysAnswers /\ response = NoResponse

LookupFunctions == {"search_gene", "get_transcript_details"}
EmptyCache == [fn \in LookupFunctions |-> <<>>]
NoCall == [fn |-> "", key |-> "", hit |-> FALSE, status |-> 0, outcome |-> "", value |-> 0]

CacheIdle == cache = EmptyCache /\ queries = 0 /\ lookups = 0 /\ last_call = NoCall

NoBlast == [caller |-> "", max_wait |-> 0, elapsed |-> 0]

BlastIdle == bpc = "idle" /\ blast = NoBlast /\ blast_log = <<>> /\ blast_result = ""

GetIdle == clock = 0 /\ last_request_time = 0 /\ get_calls = 0 /\ get_log = <<>>

ServicesIdle == CacheIdle /\ BlastIdle /\ GetIdle

EnsemblIdle ==
    /\ data = NoData /\ flank_args = NoFlankArgs /\ genome = <<>>
    /\ region_log = <<>> /\ flank = NoFlank
    /\ RouteIdle
    /\ ServicesIdle

-----------------------------------------------------------------------------
(* Transcript request: /get_sequence computes blocks, junctions and the   *)
(* CDS projection from one TranscriptInfo                                  *)

TranscriptIdle ==
    /\ tpc = "idle" /\ tinfo = [strand |-> "+", exons |-> <<>>, cds |-> <<>>]
    /\ feature = "exons" /\ blocks = <<>> /\ junctions = <<>> /\ ann = <<>>

SequenceIdle == raw = <<>> /\ full = <<>> /\ rc_count = 0

InitTranscript ==
    /\ tpc = "start"
    /\ tinfo \in TranscriptInfos
    /\ feature = "exons"
    /\ blocks = <<>> /\ junctions = <<>> /\ ann = <<>>
    /\ SequenceIdle
    /\ DesignIdle
    /\ EnsemblIdle

Blocks ==
    /\ tpc = "start"
    /\ \E f \in Features :
          /\ feature' = f
          /\ blocks' = BlocksForSplicedSequence(tinfo, f)
    /\ tpc' = "blocks"
    /\ UNCHANGED <<tinfo, junctions, ann>>
    /\ UNCHANGED <<svars, dvars, evars>>

Junctions ==
    /\ tpc = "blocks"
    /\ junctions' = JunctionsFromBlocks(blocks)
    /\ tpc' = "junctions"
    /\ UNCHANGED <<tinfo, feature, blocks, ann>>
    /\ UNCHANGED <<svars, dvars, evars>>

CdsAnnotations ==
    /\ tpc = "junctions"
    /\ ann' = CdsAnnotationsInTranscriptCoords(tinfo)
    /\ tpc' = "done"
    /\ UNCHANGED <<tinfo, feature, blocks, junctions>>
    /\ UNCHANGED <<svars, dvars, evars>>

NextTranscript == Blocks \/ Junctions \/ CdsAnnotations

SpecTranscript == InitTranscript /\ [][NextTranscript]_vars

\* block-ordering scenarios: the exons are any list of intervals, in any
\* order, overlapping or repeated; the cds list is empty and the record has
\* no utr5 key
BlockIntervals == { iv \in (1..MaxBlockCoord) \X (1..MaxBlockCoord) : iv[1] <= iv[2] }

InitBlocks ==
    /\ tpc = "start"
    /\ tinfo \in { [strand |-> st, exons |-> ex, cds |-> <<>>] :
                      st \in Strands, ex \in SeqsUpTo(BlockIntervals, MaxBlocks) }
    /\ feature = "exons"
    /\ blocks = <<>> /\ junctions = <<>> /\ ann = <<>>
    /\ SequenceIdle
    /\ DesignIdle
    /\ EnsemblIdle

SpecBlocks == InitBlocks /\ [][NextTranscript]_vars

-----------------------------------------------------------------------------
(* Transcript lookup: the Annotation Service's answer for a transcript,    *)
(* turned into a TranscriptInfo and then used as in /get_sequence          *)

\* exons as the service lists them: pairwise disjoint, in either order
ExonLists == DisjointLists(1, MaxExons) \cup {Reverse(l) : l \in DisjointLists(1, MaxExons)}

\* no Translation, or its genomic start and end
Translations == {<<>>} \cup ((1..MaxCoord) \X (1..MaxCoord))

Responses ==
    { [strand |-> st, Exon |-> ex, Translation |-> tr] :
        st \in {1, -1}, ex \in ExonLists, tr \in Translations }

InitDetails ==
    /\ tpc = "lookup"
    /\ data \in Responses
    /\ tinfo = [strand |-> "+", exons |-> <<>>, cds |-> <<>>]
    /\ feature = "exons" /\ blocks = <<>> /\ junctions = <<>> /\ ann = <<>>
    /\ flank_args = NoFlankArgs /\ genome = <<>> /\ region_log = <<>> /\ flank = NoFlank
    /\ RouteIdle
    /\ ServicesIdle
    /\ SequenceIdle
    /\ DesignIdle

GetTranscriptDetails ==
    /\ tpc = "lookup"
    /\ tinfo' = TranscriptDetails(data)
    /\ tpc' = "start"
    /\ UNCHANGED <<feature, blocks, junctions, ann>>
    /\ UNCHANGED <<svars, dvars, evars>>

NextDetails == GetTranscriptDetails \/ Blocks \/ Junctions \/ CdsAnnotations

SpecDetails == InitDetails /\ [][NextDetails]_vars

-----------------------------------------------------------------------------
(* Flanking sequences: get_flanking_sequence on one TranscriptInfo          *)

\* the chromosome: one base longer than the largest feature coordinate
Chromosome ==
    LET letters == <<"A", "c", "G", "t", "N", "C", "a">>
    IN [i \in 1..(MaxCoord + 1) |-> letters[(i % Len(letters)) + 1]]

InitFlank ==
    /\ tpc = "flank"
    /\ tinfo \in { [strand |-> st, exons |-> ex, cds |-> cd] :
                      st \in Strands, ex \in DisjointLists(1, MaxFlankExons),
                      cd \in DisjointLists(1, 1) }
    /\ flank_args \in [upstream_bp : 0..MaxFlankBp, downstream_bp : 0..MaxFlankBp,
                        use_cds_anchor : BOOLEAN]
    /\ genome = Chromosome
    /\ region_log = <<>> /\ flank = NoFlank /\ data = NoData
    /\ RouteIdle
    /\ ServicesIdle
    /\ feature = "exons" /\ blocks = <<>> /\ junctions = <<>> /\ ann = <<>>
    /\ SequenceIdle
    /\ DesignIdle

GetFlankingSequence ==
    /\ tpc = "flank"
    /\ LET calls == FlankCalls(tinfo, flank_args, genome)
       IN /\ region_log' = calls
          /\ flank' = [upstream |-> FlankOf(calls, "upstream"),
                       downstream |-> FlankOf(calls, "downstream")]
    /\ tpc' = "flanked"
    /\ UNCHANGED <<tinfo, feature, blocks, junctions, ann>>
    /\ UNCHANGED <<data, flank_args, genome, rvars, cvars, bvars, gvars>>
    /\ UNCHANGED <<svars, dvars>>

NextFlank == GetFlankingSequence

SpecFlank == InitFlank /\ [][NextFlank]_vars

-----------------------------------------------------------------------------
(* Reverse complement of a fetched sequence *)

InitSequence ==
    /\ raw \in SeqsUpTo(Bases, MaxSeqLen)
    /\ full = raw
    /\ rc_count = 0
    /\ TranscriptIdle
    /\ DesignIdle
    /\ EnsemblIdle

ApplyReverseComplement ==
    /\ rc_count < 2
    /\ full' = ReverseComplement(full)
    /\ rc_count' = rc_count + 1
    /\ UNCHANGED raw
    /\ UNCHANGED <<tvars, dvars, evars>>

NextSequence == ApplyReverseComplement

SpecSequence == InitSequence /\ [][NextSequence]_vars

-----------------------------------------------------------------------------
(* The Primer Oracle's right-primer search: what primer3 can answer for    *)
(* the window of a call. A right primer lies inside the included region    *)
(* [j_local, n), is the reverse complement of the template there, and      *)
(* carries the Tm the search computed.                                     *)

MaxTemplateLen == 6   \* template length of the pairing scenarios
MaxRawLen == 4        \* raw template length of the window scenarios
MaxRight == 2         \* right primers returned by one search
MaxLimit == 3         \* small values of max_candidates in the scoring scenarios

\* the answer for one picked right primer: PRIMER_RIGHT_i is (right_end,
\* length), the sequence is the reverse complement of the template there
RightAnswer(loc, pos) ==
    LET sq == ReverseComplement(Slice(loc, pos[1] - pos[2] + 1, pos[1] + 1))
    IN [pos |-> pos, sequence |-> sq, tm |-> SearchTm(sq), gc |-> OligoGc(sq)]

\* primer3.design_primers(right_seq_args, right_args) on the window
DesignPrimersRight(loc) == [i \in 1..Len(oracle.right) |-> RightAnswer(loc, oracle.right[i])]

\* the right primers of a given length inside the included region [jl, n)
RightPositions(n, jl, len) == { <<e, len>> : e \in {x \in 0..(n - 1) : x - len + 1 >= jl} }

SeqsOfLen(S, n) == {s \in SeqsUpTo(S, n) : Len(s) = n}

\* the arguments of one call and the Oracle that will answer it
DesignInit(Tpls, Js, Ovs, Params, Products, Pads, MaxCands, TmBases, SearchBases) ==
    /\ dpc = "call"
    /\ template \in Tpls
    /\ junction_pos \in Js
    /\ \E ov \in Ovs : overlap_min = ov[1] /\ overlap_max = ov[2]
    /\ primer_params \in Params
    /\ \E pr \in Products : product_min = pr[1] /\ product_max = pr[2]
    /\ \E pd \in Pads : left_pad = pd[1] /\ right_pad = pd[2]
    /\ max_candidates \in MaxCands
    /\ LET tpl == Normalize(template)
           loc == LocalWindow(tpl, junction_pos, left_pad, right_pad)
           jl == junction_pos - WinStart(tpl, junction_pos, left_pad)
           pool == RightPositions(Len(loc), jl, PrimerMin(primer_params))
       IN oracle \in { [tm_base |-> b, search_base |-> sb, right |-> r] :
                         b \in TmBases, sb \in SearchBases, r \in SeqsUpTo(pool, MaxRight) }
    /\ DesignLocalsUnset
    /\ TranscriptIdle
    /\ SequenceIdle
    /\ EnsemblIdle

ScaledParams(lo, hi) == [PRIMER_MIN_SIZE |-> lo, PRIMER_MAX_SIZE |-> hi]

\* offsets of the Oracle's two Tm functions
AnalysisTmBases == {510, 520}
SearchTmBases == {580, 620}

\* pairing scenarios: one window, many templates and Oracle answers
InitPairing ==
    DesignInit(SeqsOfLen({"A", "C"}, MaxTemplateLen), {3}, {<<1, 3>>},
               {ScaledParams(2, 4)}, {<<3, 6>>, <<4, 5>>}, {<<250, 400>>}, {25},
               AnalysisTmBases, SearchTmBases)

\* window scenarios: many arguments, few Oracle answers
InitWindow ==
    DesignInit(SeqsUpTo({"A", "c", " "}, MaxRawLen), 0..MaxRawLen,
               {<<1, 1>>, <<1, 2>>, <<2, 2>>, <<2, 1>>},
               {<<>>, ScaledParams(2, 3), ScaledParams(2, 4)},
               {<<2, 3>>, <<3, 4>>}, {<<1, 1>>, <<1, 2>>, <<250, 2>>, <<250, 400>>}, {25},
               {520}, {580})

\* scoring scenarios: many templates, optimal temperatures and candidate
\* limits, one right primer
InitScoring ==
    /\ DesignInit(SeqsOfLen({"A", "C"}, MaxTemplateLen), {3}, {<<1, 3>>},
                  {ScaledParams(2, 4), [ScaledParams(2, 4) EXCEPT !.PRIMER_MIN_SIZE = 3],
                   [PRIMER_MIN_SIZE |-> 2, PRIMER_MAX_SIZE |-> 4, PRIMER_OPT_TM |-> 570]},
                  {<<3, 6>>}, {<<250, 400>>}, (0..MaxLimit) \cup {25},
                  AnalysisTmBases, {580})
    /\ Len(oracle.right) = 1

-----------------------------------------------------------------------------
(* design_junction_primer_pairs, in the four stretches between its returns *)

\* lines 42-112: normalise, validate, cut the window, generate candidates
ValidateAndGenerate ==
    /\ dpc = "call"
    /\ LET tpl == Normalize(template)
           n_full == Len(tpl)
           primer_min == PrimerMin(primer_params)
           primer_max == PrimerMax(primer_params)
           ws == WinStart(tpl, junction_pos, left_pad)
           loc == LocalWindow(tpl, junction_pos, left_pad, right_pad)
           jl == junction_pos - ws
           cands == GenerateCandidates(jl, Len(loc), overlap_min, overlap_max,
                                       primer_min, primer_max)
       IN /\ template' = tpl
          /\ IF n_full = 0
             THEN /\ result' = Failed("Empty template") /\ dpc' = "done"
                  /\ UNCHANGED <<win_start, local, j_local, candidates>>
             ELSE IF ~(0 < junction_pos /\ junction_pos < n_full)
             THEN /\ result' = Failed("junction_pos out of range") /\ dpc' = "done"
                  /\ UNCHANGED <<win_start, local, j_local, candidates>>
             ELSE /\ win_start' = ws /\ local' = loc /\ j_local' = jl
                  /\ candidates' = cands
                  /\ IF cands = <<>>
                     THEN result' = NoCandidates /\ dpc' = "done"
                     ELSE result' = result /\ dpc' = "scoring"
    /\ UNCHANGED <<avars, scored, right_candidates, seen, oracle_log, pair_trace>>
    /\ UNCHANGED <<tvars, svars, evars>>

\* lines 114-164: diagnostic search, scoring, sort, truncation, region check
ScoreCandidates ==
    /\ dpc = "scoring"
    /\ LET sc == ScoredCandidates(local, candidates, OptTm(primer_params), max_candidates)
           right_region_len == Len(local) - j_local
       IN /\ scored' = sc
          /\ oracle_log' = oracle_log
                \o <<OracleCall("search_diagnostic", <<>>,
                                <<ProductMinActual(product_min), ProductMaxActual(product_max)>>)>>
                \o [i \in 1..Len(candidates) |-> Analysis("analyze")]
          /\ IF sc = <<>>
             THEN result' = Raised("IndexError") /\ dpc' = "done"
             ELSE IF right_region_len < PrimerMin(primer_params)
             THEN result' = Failed("Window too small for right primers") /\ dpc' = "done"
             ELSE result' = result /\ dpc' = "search"
    /\ UNCHANGED <<template, avars, win_start, local, j_local, candidates,
                   right_candidates, seen, pair_trace>>
    /\ UNCHANGED <<tvars, svars, evars>>

\* lines 166-209: the one right-primer search and the parsing of its answer
SearchRight ==
    /\ dpc = "search"
    /\ oracle_log' = Append(oracle_log,
          OracleCall("search_right", RightIncludedRegion(j_local, Len(local)),
                     <<ProductMinActual(product_min), ProductMaxActual(product_max)>>))
    /\ IF Len(oracle.right) = 0
       THEN /\ result' = NoRightPrimers
            /\ dpc' = "done"
            /\ UNCHANGED right_candidates
       ELSE /\ right_candidates' = CollectRight(DesignPrimersRight(local), 0, <<>>)
            /\ result' = result /\ dpc' = "pairing"
    /\ UNCHANGED <<template, avars, win_start, local, j_local, candidates, scored,
                   seen, pair_trace>>
    /\ UNCHANGED <<tvars, svars, evars>>

\* lines 211-271: the pairing loop and the return
PairCandidates ==
    /\ dpc = "pairing"
    /\ LET c == [local |-> local, win_start |-> win_start, junction_pos |-> junction_pos,
                 product_min |-> product_min, product_max |-> product_max,
                 scored |-> scored, right |-> right_candidates]
           st == PairLoop(c, 1, 1, [pairs |-> <<>>, seen |-> {}, trace |-> <<>>, log |-> <<>>])
       IN /\ result' = Returned(st.pairs)
          /\ seen' = st.seen
          /\ pair_trace' = st.trace
          /\ oracle_log' = oracle_log \o st.log
    /\ dpc' = "done"
    /\ UNCHANGED <<template, avars, win_start, local, j_local, candidates, scored,
                   right_candidates>>
    /\ UNCHANGED <<tvars, svars, evars>>

NextDesign == ValidateAndGenerate \/ ScoreCandidates \/ SearchRight \/ PairCandidates

Spec == InitPairing /\ [][NextDesign]_vars

SpecWindow == InitWindow /\ [][NextDesign]_vars

SpecScoring == InitScoring /\ [][NextDesign]_vars

-----------------------------------------------------------------------------
(* Properties of the junction primer design *)

CandidatesGenerated == dpc \in {"scoring", "search", "pairing", "done"} /\ candidates # <<>>

\* C2: every generated span is (j_local - left_ov, j_local + right_ov) for
\* some left_ov and right_ov in overlap_min..overlap_max, has a length in
\* primer_min..primer_max, lies in the window, covers the junction with at
\* least overlap_min bases on each side, and no span occurs twice.
C2_CandidateSpans ==
    CandidatesGenerated =>
        /\ \A i \in 1..Len(candidates) :
              LET start == candidates[i][1]
                  end == candidates[i][2]
              IN /\ \E left_ov \in overlap_min..overlap_max :
                       \E right_ov \in overlap_min..overlap_max :
                          start = j_local - left_ov /\ end = j_local + right_ov
                 /\ PrimerMin(primer_params) <= end - start
                 /\ end - start <= PrimerMax(primer_params)
                 /\ 0 <= start /\ end <= Len(local)
                 /\ start + overlap_min <= j_local /\ j_local + overlap_min <= end
        /\ \A i \in 1..Len(candidates) : \A k \in 1..Len(candidates) :
              i # k => candidates[i] # candidates[k]

C2_Witness ==
    /\ CandidatesGenerated
    /\ overlap_min = 1 /\ overlap_max = 2 /\ PrimerMax(primer_params) = 3
    /\ win_start = 1 /\ Len(local) = 3
    /\ candidates = << <<0, 2>>, <<0, 3>> >>

PairingDone == dpc = "done" /\ result.kind = "return" /\ result.error = ""

TraceLeftTm(e) == scored[e.li].a.tm
TraceRightTm(e) == right_candidates[e.ri].tm

\* C3: a visited (left, right) combination is rejected by the Tm filter
\* exactly when |left Tm - right Tm| > 5.0, the left Tm being the analysed
\* one and the right Tm the one the search returned; so every emitted pair
\* has a difference of at most 5.0 and a difference of exactly 5.0 passes.
C3_TmFilter ==
    PairingDone =>
        \A k \in 1..Len(pair_trace) :
            LET e == pair_trace[k]
                diff == Abs(TraceLeftTm(e) - TraceRightTm(e))
            IN /\ (e.verdict = "tm") <=> (diff > 50)
               /\ e.verdict = "emit" =>
                     /\ diff <= 50
                     /\ result.pairs[e.pair_number].left.tm = TraceLeftTm(e)
                     /\ TraceRightTm(e) = SearchTm(right_candidates[e.ri].seq)

C3_Witness ==
    /\ PairingDone
    /\ \E k \in 1..Len(pair_trace) :
          /\ pair_trace[k].verdict = "emit"
          /\ TraceLeftTm(pair_trace[k]) = 590 /\ TraceRightTm(pair_trace[k]) = 640
    /\ \E k \in 1..Len(pair_trace) :
          /\ pair_trace[k].verdict = "tm"
          /\ TraceLeftTm(pair_trace[k]) = 570 /\ TraceRightTm(pair_trace[k]) = 640

C5_NoDuplicatePairs ==
    PairingDone =>
        \A i \in 1..Len(result.pairs) : \A k \in 1..Len(result.pairs) :
            i # k =>
               ~ /\ result.pairs[i].left.sequence = result.pairs[k].left.sequence
                 /\ result.pairs[i].right.sequence = result.pairs[k].right.sequence
                 /\ result.pairs[i].product_size = result.pairs[k].product_size

C5_Witness ==
    /\ PairingDone
    /\ Len(right_candidates) = 2
    /\ right_candidates[1].seq = right_candidates[2].seq
    /\ right_candidates[1].interval_local = right_candidates[2].interval_local
    /\ right_candidates[1].tm = right_candidates[2].tm
    /\ Len(scored) = Len(result.pairs)
    /\ \A i \in 1..Len(scored) :
          /\ pair_trace[2 * i - 1].verdict = "emit"
          /\ pair_trace[2 * i].verdict = "dup"

\* the combinations in visiting order: left candidates outer, right inner
ComboLeft(k) == ((k - 1) \div Len(right_candidates)) + 1
ComboRight(k) == ((k - 1) % Len(right_candidates)) + 1
ComboSize(k) == right_candidates[ComboRight(k)].interval_local[2] - scored[ComboLeft(k)].span[1]
ComboKey(k) ==
    <<Slice(local, scored[ComboLeft(k)].span[1], scored[ComboLeft(k)].span[2]),
      right_candidates[ComboRight(k)].seq, ComboSize(k)>>
ComboPasses(k) ==
    /\ Abs(scored[ComboLeft(k)].a.tm - right_candidates[ComboRight(k)].tm) <= 50
    /\ product_min <= ComboSize(k) /\ ComboSize(k) <= product_max
ComboSurvives(k) ==
    /\ ComboPasses(k)
    /\ \A m \in 1..(k - 1) : ComboPasses(m) => ComboKey(m) # ComboKey(k)

RECURSIVE SurvivorsFrom(_)
SurvivorsFrom(k) ==
    IF k > Len(scored) * Len(right_candidates) THEN <<>>
    ELSE (IF ComboSurvives(k) THEN <<k>> ELSE <<>>) \o SurvivorsFrom(k + 1)

\* C6: at most 10 pairs are returned; they are the first (up to 10)
\* combinations passing the Tm, product-size and de-duplication checks, with
\* left candidates visited in ascending score order (outer) and right
\* candidates in the order the search returned them (inner); the i-th pair
\* has pair_number i and num_pairs is the length of the list.
C6_FirstTenInOrder ==
    PairingDone =>
        LET survivors == SurvivorsFrom(1)
            expected == SubSeq(survivors, 1, Min(10, Len(survivors)))
        IN /\ Len(result.pairs) <= 10
           /\ result.num_pairs = Len(result.pairs)
           /\ Len(result.pairs) = Len(expected)
           /\ \A i \in 1..(Len(scored) - 1) : scored[i].score <= scored[i + 1].score
           /\ \A i \in 1..(Len(right_candidates) - 1) :
                 right_candidates[i].idx < right_candidates[i + 1].idx
           /\ \A i \in 1..Len(result.pairs) :
                 LET p == result.pairs[i]
                     sc == scored[ComboLeft(expected[i])]
                     rc == right_candidates[ComboRight(expected[i])]
                 IN /\ p.pair_number = i
                    /\ p.left.interval = <<win_start + sc.span[1], win_start + sc.span[2]>>
                    /\ p.left.sequence = Slice(local, sc.span[1], sc.span[2])
                    /\ p.right.interval = <<win_start + rc.interval_local[1],
                                            win_start + rc.interval_local[2]>>
                    /\ p.right.sequence = rc.seq
                    /\ p.product_size = ComboSize(expected[i])

C6_Witness ==
    /\ PairingDone
    /\ Len(result.pairs) = 10
    /\ Len(SurvivorsFrom(1)) = 12
    /\ Len(pair_trace) = 10

\* the scoring stage has run
ScoringDone == dpc \in {"search", "pairing"} \/ (dpc = "done" /\ candidates # <<>>)

\* score of the k-th generated candidate, from its sequence
ScoreOf(k) ==
    LET sq == Slice(local, candidates[k][1], candidates[k][2])
        penalty == IF OligoGc(sq) < 350 \/ OligoGc(sq) > 650 THEN 50 ELSE 0
        d == CalcTm(sq) - OptTm(primer_params)
    IN (IF d < 0 THEN -d ELSE d) + penalty

\* 1-based place of the k-th candidate when ordered by score, ties by
\* generation order
RankOf(k) ==
    1 + Cardinality({m \in 1..Len(candidates) :
                        ScoreOf(m) < ScoreOf(k) \/ (ScoreOf(m) = ScoreOf(k) /\ m < k)})

\* scored holds the candidates ranked by (score, generation order), cut to
\* the first max_candidates
WorkingSetAsRanked ==
    /\ Len(scored) = Min(max_candidates, Len(candidates))
    /\ \A k \in 1..Len(candidates) :
          RankOf(k) <= max_candidates =>
             /\ scored[RankOf(k)].span = candidates[k]
             /\ scored[RankOf(k)].score = ScoreOf(k)

\* C18: for any max_candidates >= 0, once the candidates are scored the
\* call goes on with the working set: the generated candidates, each scored
\* |Tm - PRIMER_OPT_TM| plus 5.0 when GC% is below 35 or above 65, ordered
\* by score with ties in generation order, cut to the first max_candidates
\* entries; the pairing loop visits left candidates of this set only.
C18_WorkingSetUsed ==
    ScoringDone =>
        /\ result.kind # "raise"
        /\ WorkingSetAsRanked
        /\ \A i \in 1..Len(pair_trace) : pair_trace[i].li \in 1..Len(scored)

\* C19 as stated: a left candidate at 58.0 and a right candidate at 64.0
\* pass the Tm filter, and a right candidate at 70.0 is rejected by it.
C19_Paired58With64 ==
    PairingDone =>
        \A k \in 1..Len(pair_trace) :
            LET e == pair_trace[k] IN
            /\ (TraceLeftTm(e) = 580 /\ TraceRightTm(e) = 640) => e.verdict # "tm"
            /\ (TraceLeftTm(e) = 580 /\ TraceRightTm(e) = 700) => e.verdict = "tm"

\* C19, amended: with max_tm_diff = 5.0 a left candidate at 58.0 and a
\* right candidate at 64.0 differ by 6.0 and are rejected by the Tm filter,
\* and so is a right candidate at 70.0.
C19_Rejected58With64 ==
    PairingDone =>
        \A k \in 1..Len(pair_trace) :
            LET e == pair_trace[k] IN
            /\ (TraceLeftTm(e) = 580 /\ TraceRightTm(e) = 640) => e.verdict = "tm"
            /\ (TraceLeftTm(e) = 580 /\ TraceRightTm(e) = 700) => e.verdict = "tm"

C19_Witness ==
    /\ PairingDone
    /\ \E k \in 1..Len(pair_trace) :
          /\ TraceLeftTm(pair_trace[k]) = 580 /\ TraceRightTm(pair_trace[k]) = 640
          /\ pair_trace[k].verdict = "tm"
    /\ \E k \in 1..Len(pair_trace) :
          /\ TraceLeftTm(pair_trace[k]) = 600 /\ TraceRightTm(pair_trace[k]) = 640
          /\ pair_trace[k].verdict = "emit"

\* the validation of lines 45-50 passes
ArgumentsValid ==
    LET n_full == Len(Normalize(template))
    IN n_full # 0 /\ 0 < junction_pos /\ junction_pos < n_full

SearchIssued == \E i \in 1..Len(oracle_log) : oracle_log[i].op = "search_right"

\* C11: when the candidate generator emits nothing the call returns zero
\* pairs with the reason "No junction candidates in window"; when the right
\* search returns zero primers it returns zero pairs with the reason "No
\* RIGHT primers found in downstream region"; each reason is given for its
\* own cause only, so the two outcomes never carry the same reason.
C11_DistinctReasons ==
    dpc = "done" =>
        /\ (ArgumentsValid /\ candidates = <<>>) =>
              /\ result.kind = "return" /\ result.num_pairs = 0
              /\ result.error = "No junction candidates in window"
        /\ (SearchIssued /\ Len(oracle.right) = 0) =>
              /\ result.kind = "return" /\ result.num_pairs = 0
              /\ result.error = "No RIGHT primers found in downstream region"
        /\ result.error = "No junction candidates in window" =>
              candidates = <<>> /\ ~SearchIssued
        /\ result.error = "No RIGHT primers found in downstream region" =>
              candidates # <<>> /\ SearchIssued /\ Len(oracle.right) = 0

C11_Witness ==
    /\ dpc = "done" /\ candidates # <<>>
    /\ SearchIssued /\ Len(oracle.right) = 0
    /\ result.num_pairs = 0
    /\ result.error = "No RIGHT primers found in downstream region"

\* the zero-pair results the call can give, one per cause
ZeroPairOutcomes ==
    {Failed("Empty template"), Failed("junction_pos out of range"), NoCandidates,
     Failed("Window too small for right primers"), NoRightPrimers, Returned(<<>>)}

\* C12: every returned result with num_pairs = 0 carries a reason, and the
\* response of the /design_primers junction route to it differs from its
\* response to a zero-pair result of any other cause.
C12_ZeroResultHasReason ==
    (dpc = "done" /\ result.kind = "return" /\ result.num_pairs = 0) =>
        /\ result.error # ""
        /\ \A other \in ZeroPairOutcomes :
              other # result => JunctionRouteResponse(other) # JunctionRouteResponse(result)

\* the arguments that validation or the empty overlap range turns away
RejectedArguments ==
    LET n_full == Len(Normalize(template))
    IN \/ n_full = 0
       \/ junction_pos <= 0 \/ junction_pos >= n_full
       \/ overlap_min > overlap_max

\* C13: with an empty template, a junction_pos outside 1..len-1 or
\* overlap_min > overlap_max, no Oracle operation is issued at any point of
\* the call, and the call returns zero pairs with a reason.
C13_RejectedBeforeOracle ==
    RejectedArguments =>
        /\ oracle_log = <<>>
        /\ dpc \in {"call", "done"}
        /\ dpc = "done" =>
              /\ result.kind = "return" /\ result.num_pairs = 0 /\ result.pairs = <<>>
              /\ result.error # ""

C13_Witness ==
    /\ dpc = "done" /\ ArgumentsValid
    /\ overlap_min = 2 /\ overlap_max = 1
    /\ Len(template) = 4 /\ junction_pos = 2 /\ PrimerMax(primer_params) = 4
    /\ oracle_log = <<>>
    /\ result.error = "No junction candidates in window"

\* C14: both intervals of an emitted pair are the window-local intervals
\* shifted by win_start, the clamped junction_pos - left_pad; in template
\* coordinates they cut out the left sequence and the reverse complement of
\* the right sequence, and product_size is the right interval's end minus
\* the left interval's start.
C14_OneCoordinateFrame ==
    PairingDone =>
        /\ win_start = Clamp(junction_pos - left_pad, 0, Len(template))
        /\ \A k \in 1..Len(pair_trace) :
              LET e == pair_trace[k]
                  sc == scored[e.li]
                  rc == right_candidates[e.ri]
              IN e.verdict = "emit" =>
                    LET p == result.pairs[e.pair_number]
                    IN /\ p.left.interval[1] - sc.span[1] = win_start
                       /\ p.left.interval[2] - sc.span[2] = win_start
                       /\ p.right.interval[1] - rc.interval_local[1] = win_start
                       /\ p.right.interval[2] - rc.interval_local[2] = win_start
                       /\ p.product_size = p.right.interval[2] - p.left.interval[1]
                       /\ Slice(template, p.left.interval[1], p.left.interval[2])
                             = p.left.sequence
                       /\ ReverseComplement(Slice(template, p.right.interval[1],
                                                  p.right.interval[2])) = p.right.sequence

C14_Witness ==
    /\ PairingDone
    /\ left_pad = 1 /\ win_start = 1 /\ right_pad = 2
    /\ junction_pos + right_pad = Len(template)
    /\ \E i \in 1..Len(result.pairs) :
          /\ result.pairs[i].left.interval = <<1, 3>>
          /\ result.pairs[i].right.interval = <<2, 4>>
          /\ result.pairs[i].product_size = 3

\* the candidate generator of lines 96-107 has run
GeneratorRan == dpc # "call" /\ ArgumentsValid

\* the span for (left_ov, right_ov) passes the length and window checks
Admissible(left_ov, right_ov) ==
    /\ PrimerMin(primer_params) <= left_ov + right_ov
    /\ left_ov + right_ov <= PrimerMax(primer_params)
    /\ j_local - left_ov >= 0
    /\ j_local + right_ov <= Len(local)

\* C24: the candidate generator is complete and ordered: every pair
\* (left_ov, right_ov) of overlap_min..overlap_max whose span passes the
\* length and window checks has its span in the list exactly once, the list
\* ascends lexicographically in (left_ov, right_ov), and it holds at most
\* (overlap_max - overlap_min + 1)^2 spans.
C24_GeneratorComplete ==
    GeneratorRan =>
        /\ \A left_ov \in overlap_min..overlap_max :
              \A right_ov \in overlap_min..overlap_max :
                 Admissible(left_ov, right_ov) =>
                    Cardinality({i \in 1..Len(candidates) :
                        candidates[i] = <<j_local - left_ov, j_local + right_ov>>}) = 1
        /\ \A i \in 1..Len(candidates) : \A k \in 1..Len(candidates) :
              i < k =>
                 LET lo_i == j_local - candidates[i][1]
                     ro_i == candidates[i][2] - j_local
                     lo_k == j_local - candidates[k][1]
                     ro_k == candidates[k][2] - j_local
                 IN lo_i < lo_k \/ (lo_i = lo_k /\ ro_i < ro_k)
        /\ Len(candidates) <= (overlap_max - overlap_min + 1) * (overlap_max - overlap_min + 1)

C24_Witness ==
    /\ GeneratorRan
    /\ overlap_min = 1 /\ overlap_max = 2 /\ PrimerMax(primer_params) = 3
    /\ j_local = 2 /\ Len(local) = 4
    /\ candidates = << <<1, 3>>, <<1, 4>>, <<0, 3>> >>

\* C26: the Oracle is asked for right primers at most once in a call, over
\* the included region that starts at j_local and runs to the end of the
\* window; the search comes before every step of the pairing loop, and the
\* pairing loop asks the Oracle for analyses only, never for a search.
C26_OneRightSearch ==
    /\ Cardinality({i \in 1..Len(oracle_log) : oracle_log[i].op = "search_right"}) <= 1
    /\ \A i \in 1..Len(oracle_log) :
          oracle_log[i].op = "search_right" =>
             /\ oracle_log[i].region = <<j_local, Len(local) - j_local>>
             /\ \A k \in 1..Len(oracle_log) :
                   /\ k > i => oracle_log[k].op \in {"analyze", "pair_analyze"}
                   /\ k < i => oracle_log[k].op \in {"analyze", "search_diagnostic"}
    /\ (dpc = "pairing" \/ pair_trace # <<>>) => SearchIssued

C26_Witness ==
    /\ PairingDone
    /\ win_start = 1
    /\ \E k \in 1..Len(pair_trace) : pair_trace[k].verdict = "emit"
    /\ \E i \in 1..Len(oracle_log) :
          oracle_log[i].op = "search_right" /\ oracle_log[i].region = <<1, 2>>
    /\ oracle_log[Len(oracle_log)].op = "pair_analyze"

\* C28: the left interval [a, b) of every emitted pair lies inside the
\* template and covers the junction with at least overlap_min bases on each
\* side: 0 <= a, b <= Len(template) and
\* a + overlap_min <= junction_pos <= b - overlap_min, whatever the pads
\* and however the window was clamped.
C28_LeftPrimerSpansJunction ==
    PairingDone =>
        \A i \in 1..Len(result.pairs) :
           LET a == result.pairs[i].left.interval[1]
               b == result.pairs[i].left.interval[2]
           IN /\ 0 <= a /\ b <= Len(template)
              /\ a + overlap_min <= junction_pos
              /\ junction_pos <= b - overlap_min

C28_Witness ==
    /\ PairingDone
    /\ left_pad = 250 /\ right_pad = 400 /\ junction_pos = 2 /\ overlap_min = 1
    /\ \E i \in 1..Len(result.pairs) : result.pairs[i].left.interval = <<0, 3>>

-----------------------------------------------------------------------------
(* Properties of the coordinate transform engine *)

Ascending(a) == \A i \in 1..(Len(a) - 1) : a[i][1] < a[i + 1][1]
NonOverlapping(a) ==
    /\ \A i \in 1..Len(a) : a[i][1] < a[i][2]
    /\ \A i \in 1..(Len(a) - 1) : a[i][2] <= a[i + 1][1]

JunctionsComputed == tpc \in {"junctions", "done"}

\* C1: k blocks in transcript order, each with start <= end, give exactly
\* k-1 junctions (none for k = 0 or 1), with strictly increasing pos, and
\* the last pos is strictly less than the total spliced length.
C1_JunctionCount ==
    JunctionsComputed =>
        /\ Len(junctions) = (IF Len(blocks) = 0 THEN 0 ELSE Len(blocks) - 1)
        /\ \A i \in 1..(Len(junctions) - 1) : junctions[i].pos < junctions[i + 1].pos
        /\ Len(junctions) > 0 => junctions[Len(junctions)].pos < SumLengths(blocks)

C1_Witness ==
    /\ JunctionsComputed /\ tinfo.strand = "-"
    /\ Len(blocks) = 3 /\ Len(junctions) = 2
    /\ junctions[2].pos = 3 /\ SumLengths(blocks) = 5

\* C15: the i-th junction (0-based, i < k-1) has index i, pos the sum of
\* the lengths of blocks 0..i, and label "Exon {i+1}|{i+2}".
C15_JunctionFields ==
    JunctionsComputed =>
        \A n \in 1..Len(junctions) :
            /\ n <= Len(blocks) - 1
            /\ junctions[n].index = n - 1
            /\ junctions[n].pos = SumLengths(SubSeq(blocks, 1, n))
            /\ junctions[n].label = "Exon " \o ToString(n) \o "|" \o ToString(n + 1)

C15_Witness ==
    /\ JunctionsComputed /\ tinfo.strand = "-" /\ feature = "exons"
    /\ blocks = << <<5, 5>>, <<2, 3>>, <<1, 1>> >>
    /\ junctions = << [index |-> 0, pos |-> 1, label |-> "Exon 1|2"],
                      [index |-> 1, pos |-> 3, label |-> "Exon 2|3"] >>

Occurrences(s, x) == Cardinality({i \in 1..Len(s) : s[i] = x})

BlocksComputed == tpc \in {"blocks", "junctions", "done"}

\* C16: the blocks are a permutation of the selected feature's intervals,
\* ascending by genomic start on strand '+' and exactly the reverse of that
\* ascending list on strand '-'; a missing or empty feature gives no
\* blocks; the transcript record is never changed.
C16_BlocksOrdered ==
    /\ [](BlocksComputed =>
            LET intervals == IF feature \in DOMAIN tinfo THEN tinfo[feature] ELSE <<>>
                plus == BlocksForSplicedSequence([tinfo EXCEPT !.strand = "+"], feature)
            IN /\ Len(blocks) = Len(intervals)
               /\ \A x \in Range(intervals) : Occurrences(blocks, x) = Occurrences(intervals, x)
               /\ tinfo.strand = "+" =>
                     \A i \in 1..(Len(blocks) - 1) : blocks[i][1] <= blocks[i + 1][1]
               /\ tinfo.strand = "-" =>
                     /\ \A i \in 1..(Len(blocks) - 1) : blocks[i][1] >= blocks[i + 1][1]
                     /\ blocks = [i \in 1..Len(plus) |-> plus[Len(plus) + 1 - i]]
                     /\ \A i \in 1..(Len(plus) - 1) : plus[i][1] <= plus[i + 1][1])
    /\ [][tinfo' = tinfo]_vars

C16_Witness ==
    /\ BlocksComputed /\ tinfo.strand = "-" /\ feature = "exons"
    /\ tinfo.exons = << <<2, 3>>, <<3, 3>>, <<1, 2>> >>
    /\ blocks = << <<3, 3>>, <<2, 3>>, <<1, 2>> >>

Covered(a) == UNION { a[i][1]..a[i][2] : i \in 1..Len(a) }

PairwiseDisjoint(a) ==
    \A i \in 1..Len(a) : \A k \in 1..Len(a) :
        i # k => (a[i][1]..a[i][2]) \cap (a[k][1]..a[k][2]) = {}

DetailsReturned == tpc \in {"start", "blocks", "junctions", "done"}

\* C17: for a transcript with a Translation whose start <= end, the cds,
\* utr5 and utr3 intervals are non-empty, pairwise disjoint, and together
\* cover exactly the genomic positions of the exons; without a Translation
\* all three lists are empty.
C17_FeaturesPartitionExons ==
    DetailsReturned =>
        LET parts == tinfo.cds \o tinfo.utr5 \o tinfo.utr3
        IN /\ data.Translation = <<>> => parts = <<>>
           /\ (data.Translation # <<>> /\ data.Translation[1] <= data.Translation[2]) =>
                 /\ \A i \in 1..Len(parts) : parts[i][1] <= parts[i][2]
                 /\ PairwiseDisjoint(parts)
                 /\ Covered(parts) = Covered(data.Exon)
                 /\ Covered(tinfo.exons) = Covered(data.Exon)

C17_Witness ==
    /\ DetailsReturned
    /\ data.strand = -1 /\ data.Exon = << <<4, 5>>, <<1, 2>> >> /\ data.Translation = <<2, 4>>
    /\ tinfo.strand = "-" /\ tinfo.exons = << <<1, 2>>, <<4, 5>> >>
    /\ tinfo.cds = << <<2, 2>>, <<4, 4>> >>
    /\ tinfo.utr5 = << <<5, 5>> >> /\ tinfo.utr3 = << <<1, 1>> >>

\* the get_region_sequence calls made for one flank
CallsFor(role) == SelectSeq(region_log, LAMBDA c : c.role = role)

\* the region the claim names for a flank of bp bases below / above the anchor
BelowAnchor(anchor_start, bp) ==
    <<(IF anchor_start - bp >= 1 THEN anchor_start - bp ELSE 1), anchor_start - 1>>
AboveAnchor(anchor_end, bp) == <<anchor_end + 1, anchor_end + bp>>

\* C20: the anchor is the outer bounds of the CDS when use_cds_anchor is set
\* and the CDS is non-empty, else of the exons. On strand '+' upstream is
\* asked for below the anchor and downstream above it; on strand '-' the
\* roles invert and what is returned is the reverse complement of what was
\* retrieved (upper-cased). No region asked of the service overlaps the
\* anchor span or has a coordinate below 1; without exons both flanks are
\* empty and nothing is asked.
C20_FlankRegions ==
    tpc = "flanked" =>
        /\ tinfo.exons = <<>> => region_log = <<>> /\ flank = NoFlank
        /\ tinfo.exons # <<>> =>
              LET anchored == IF flank_args.use_cds_anchor /\ Len(tinfo.cds) > 0
                              THEN tinfo.cds ELSE tinfo.exons
                  anchor_start == MinStart(anchored)
                  anchor_end == MaxEnd(anchored)
                  plus == tinfo.strand = "+"
                  up == CallsFor("upstream")
                  down == CallsFor("downstream")
              IN /\ \A x \in Covered(anchored) : anchor_start <= x /\ x <= anchor_end
                 /\ {anchor_start, anchor_end} \subseteq Covered(anchored)
                 /\ Len(up) = (IF flank_args.upstream_bp > 0 THEN 1 ELSE 0)
                 /\ Len(down) = (IF flank_args.downstream_bp > 0 THEN 1 ELSE 0)
                 /\ Len(region_log) = Len(up) + Len(down)
                 /\ \A i \in 1..Len(up) :
                       <<up[i].start, up[i].end>> =
                          (IF plus THEN BelowAnchor(anchor_start, flank_args.upstream_bp)
                           ELSE AboveAnchor(anchor_end, flank_args.upstream_bp))
                 /\ \A i \in 1..Len(down) :
                       <<down[i].start, down[i].end>> =
                          (IF plus THEN AboveAnchor(anchor_end, flank_args.downstream_bp)
                           ELSE BelowAnchor(anchor_start, flank_args.downstream_bp))
                 /\ \A i \in 1..Len(region_log) :
                       LET c == region_log[i] IN
                       /\ c.start <= c.end =>
                             /\ c.start >= 1
                             /\ c.end < anchor_start \/ c.start > anchor_end
                       /\ c.end < c.start => c.raw = <<>>
                       /\ (1 <= c.start /\ c.start <= c.end /\ c.end <= Len(genome)) =>
                             c.raw = SubSeq(genome, c.start, c.end)
                       /\ c.seq = (IF plus THEN c.raw
                                   ELSE UpperSeq(Reverse(Translate(c.raw))))
                 /\ flank.upstream = (IF Len(up) = 0 THEN <<>> ELSE up[1].seq)
                 /\ flank.downstream = (IF Len(down) = 0 THEN <<>> ELSE down[1].seq)

C20_Witness ==
    /\ tpc = "flanked" /\ tinfo.strand = "-"
    /\ tinfo.exons = << <<1, 2>>, <<4, 5>> >> /\ tinfo.cds = << <<2, 4>> >>
    /\ flank_args = [upstream_bp |-> 2, downstream_bp |-> 2, use_cds_anchor |-> TRUE]
    /\ region_log[1].role = "upstream" /\ region_log[1].start = 5 /\ region_log[1].end = 6
    /\ region_log[2].role = "downstream" /\ region_log[2].start = 1 /\ region_log[2].end = 1
    /\ flank.upstream = UpperSeq(ReverseComplement(SubSeq(genome, 5, 6)))
    /\ flank.upstream # ReverseComplement(SubSeq(genome, 5, 6))
    /\ Len(flank.downstream) = 1

\* C7: with pairwise non-overlapping exons and pairwise non-overlapping CDS
\* intervals, on either strand, the projected list is ascending, its
\* intervals are non-empty and pairwise non-overlapping, and each lies
\* within 0..total_len, the sum of the exon lengths.
C7_ProjectionWellFormed ==
    tpc = "done" =>
        /\ Ascending(ann)
        /\ NonOverlapping(ann)
        /\ \A i \in 1..Len(ann) :
              0 <= ann[i][1] /\ ann[i][2] <= SumLengths(tinfo.exons)

C7_Witness ==
    /\ tpc = "done" /\ tinfo.strand = "-"
    /\ Len(tinfo.exons) = 3 /\ Len(ann) = 3
    /\ ann[1][1] > 0 /\ ann[3][2] < SumLengths(tinfo.exons)

\* C8: on strand '-', the projection is the set of the strand '+' projection
\* of the same exons and CDS with every (start, end) mapped to
\* (total_len - end, total_len - start), listed ascending and
\* non-overlapping.
C8_MinusIsReflection ==
    (tpc = "done" /\ tinfo.strand = "-") =>
        LET plus == CdsAnnotationsInTranscriptCoords([tinfo EXCEPT !.strand = "+"])
            total_len == SumLengths(tinfo.exons)
        IN /\ Range(ann) = {<<total_len - p[2], total_len - p[1]>> : p \in Range(plus)}
           /\ Len(ann) = Len(plus)
           /\ Ascending(ann)
           /\ NonOverlapping(ann)

C8_Witness ==
    /\ tpc = "done" /\ tinfo.strand = "-"
    /\ Len(ann) = 2
    /\ ann # CdsAnnotationsInTranscriptCoords([tinfo EXCEPT !.strand = "+"])

\* C9: the reverse complement (substitution A<->T, C<->G, then reversal)
\* applied twice gives back the original sequence.
C9_ReverseComplementInvolution == rc_count = 2 => full = raw

C9_Witness == rc_count = 2 /\ raw = <<"A", "c", "N">> /\ full = raw

-----------------------------------------------------------------------------
(* Projection scenarios: ascending disjoint exons with any list of CDS     *)
(* intervals (overlapping, nested, repeated or unsorted), or with the exons *)
(* themselves as the CDS list                                               *)

MaxProjCoord == 3   \* largest genomic coordinate of the projection scenarios

\* ascending lists of at most k pairwise disjoint intervals within lo..hi
RECURSIVE DisjointWithin(_, _, _)
DisjointWithin(lo, hi, k) ==
    IF k = 0 \/ lo > hi THEN {<<>>}
    ELSE {<<>>} \cup
         UNION { UNION { { <<(<<s, e>>)>> \o rest : rest \in DisjointWithin(e + 1, hi, k - 1) }
                         : e \in s..hi }
                 : s \in lo..hi }

ProjIntervals == { iv \in (1..MaxProjCoord) \X (1..MaxProjCoord) : iv[1] <= iv[2] }

InitProjection ==
    /\ tpc = "start"
    /\ \E st \in Strands : \E ex \in DisjointWithin(1, MaxProjCoord, MaxExons) :
          \E cd \in SeqsUpTo(ProjIntervals, MaxCds) \cup {ex} :
             tinfo = [strand |-> st, exons |-> ex, cds |-> cd]
    /\ feature = "exons"
    /\ blocks = <<>> /\ junctions = <<>> /\ ann = <<>>
    /\ SequenceIdle
    /\ DesignIdle
    /\ EnsemblIdle

SpecProjection == InitProjection /\ [][NextTranscript]_vars

-----------------------------------------------------------------------------
(* Properties of the projection against its reference *)

\* the overlaps of one exon with every CDS interval from index k on, in list
\* order, in transcript coordinates
RECURSIVE ExonOverlaps(_, _, _, _, _)
ExonOverlaps(cds_list, k, exon, exon_offset, acc) ==
    IF k > Len(cds_list) THEN acc
    ELSE LET lo == Max(exon[1], cds_list[k][1])
             hi == Min(exon[2], cds_list[k][2])
         IN ExonOverlaps(cds_list, k + 1, exon, exon_offset,
               IF lo <= hi
               THEN Append(acc, <<exon_offset + lo - exon[1], exon_offset + hi - exon[1] + 1>>)
               ELSE acc)

\* every exon intersected with every CDS interval, exon by exon
RECURSIVE AllOverlaps(_, _, _, _)
AllOverlaps(exon_list, cds_list, e, acc) ==
    IF e > Len(exon_list) THEN acc
    ELSE AllOverlaps(exon_list, cds_list, e + 1,
            ExonOverlaps(cds_list, 1, exon_list[e],
                         SumLengths(SubSeq(exon_list, 1, e - 1)), acc))

\* C25: on strand '+', for any list of CDS intervals, the projection is
\* exactly the list of the non-empty intersections of every exon with every
\* CDS interval, each shifted by the summed length of the exons before it:
\* the two-pointer walk misses no overlap and reports none twice.
C25_WalkEqualsAllOverlaps ==
    (tpc = "done" /\ tinfo.strand = "+") =>
        ann = AllOverlaps(SortedPairs(tinfo.exons), SortedPairs(tinfo.cds), 1, <<>>)

C25_Witness ==
    /\ tpc = "done" /\ tinfo.strand = "+"
    /\ tinfo.exons = << <<1, 1>>, <<3, 3>> >>
    /\ tinfo.cds = << <<1, 3>>, <<1, 1>> >>
    /\ ann = << <<0, 1>>, <<0, 1>>, <<1, 2>> >>

\* C27: with the exons themselves as the CDS list, on either strand, the
\* projection has one interval per exon and the intervals tile
\* [0, total_len); their interior boundaries are the pos values of the
\* junctions computed from the exon blocks, and every pos satisfies
\* 0 < pos < total_len, the range check of the junction design on the
\* spliced exon sequence.
C27_ExonTilingMatchesJunctions ==
    (tpc = "done" /\ feature = "exons" /\ tinfo.cds = tinfo.exons /\ tinfo.exons # <<>>) =>
        LET k == Len(tinfo.exons)
            total_len == SumLengths(tinfo.exons)
        IN /\ Len(ann) = k
           /\ ann[1][1] = 0 /\ ann[k][2] = total_len
           /\ \A i \in 1..k : ann[i][1] < ann[i][2]
           /\ \A i \in 1..(k - 1) : ann[i][2] = ann[i + 1][1]
           /\ Len(junctions) = k - 1
           /\ \A i \in 1..(k - 1) : junctions[i].pos = ann[i][2]
           /\ \A i \in 1..Len(junctions) :
                 0 < junctions[i].pos /\ junctions[i].pos < total_len

C27_Witness ==
    /\ tpc = "done" /\ feature = "exons" /\ tinfo.strand = "-"
    /\ tinfo.exons = << <<1, 2>>, <<3, 3>> >> /\ tinfo.cds = tinfo.exons
    /\ ann = << <<0, 1>>, <<1, 3>> >>
    /\ junctions[1].pos = 1

-----------------------------------------------------------------------------
(* ensembl_api.py: sequences fetched from the Sequence Service. A fetch    *)
(* returns a string or None: [none, val]                                   *)

None == [none |-> TRUE, val |-> <<>>]
Some(s) == [none |-> FALSE, val |-> s]

\* "not x" for x a string or None
Falsy(x) == x.none \/ x.val = <<>>

\* get_region_sequence: "" without a request when end < start; None when
\* the request fails with an HTTP error, which it does for a region that
\* holds a failing coordinate or leaves the chromosome
GetRegionSequence(g, failing, start, end) ==
    IF end < start THEN Some(<<>>)
    ELSE IF (start..end) \cap failing # {} \/ start < 1 \/ end > Len(g) THEN None
    ELSE Some(SubSeq(g, start, end))

\* the for loop of build_spliced_sequence over the sorted intervals
RECURSIVE FetchParts(_, _, _, _, _)
FetchParts(g, failing, intervals_sorted, i, parts) ==
    IF i > Len(intervals_sorted) THEN Some(parts)
    ELSE LET seq == GetRegionSequence(g, failing, intervals_sorted[i][1], intervals_sorted[i][2])
         IN IF seq.none THEN None
            ELSE FetchParts(g, failing, intervals_sorted, i + 1, parts \o seq.val)

BuildSplicedSequence(t, f, g, failing) ==
    LET intervals == FeatureOf(t, f)
        joined == FetchParts(g, failing, SortedPairs(intervals), 1, <<>>)
    IN IF intervals = <<>> THEN None
       ELSE IF joined.none THEN None
       ELSE IF t.strand = "-" THEN Some(UpperSeq(ReverseComplement(joined.val)))
       ELSE Some(UpperSeq(joined.val))

BuildGenomicSequence(t, g, failing) ==
    IF t.exons = <<>> THEN None
    ELSE LET seq == GetRegionSequence(g, failing, MinStart(t.exons), MaxEnd(t.exons))
         IN IF seq.none THEN None
            ELSE IF t.strand = "-" THEN Some(UpperSeq(ReverseComplement(seq.val)))
            ELSE Some(UpperSeq(seq.val))

-----------------------------------------------------------------------------
(* app.py: the /get_sequence route *)

Annotation(start, end, type) == [start |-> start, end |-> end, type |-> type]

\* one annotation of the genomic display, relative to the exon span
SpanAnnotation(t, iv, type) ==
    LET exon_span_start == MinStart(t.exons)
        total_len == MaxEnd(t.exons) - exon_span_start + 1
        rel_start == iv[1] - exon_span_start
        rel_end == (iv[2] - exon_span_start) + 1
    IN IF t.strand = "-" THEN Annotation(total_len - rel_end, total_len - rel_start, type)
       ELSE Annotation(rel_start, rel_end, type)

\* insertion into a list sorted by (type, start), after equal keys
RECURSIVE InsertAnnotation(_, _)
InsertAnnotation(s, x) ==
    IF s = <<>> THEN <<x>>
    ELSE LET h == Head(s)
             before == (x.type = "cds" /\ h.type = "exon")
                           \/ (x.type = h.type /\ x.start < h.start)
         IN IF before THEN <<x>> \o s ELSE <<h>> \o InsertAnnotation(Tail(s), x)

RECURSIVE SortAnnotations(_)
SortAnnotations(s) ==
    IF s = <<>> THEN <<>>
    ELSE InsertAnnotation(SortAnnotations(SubSeq(s, 1, Len(s) - 1)), s[Len(s)])

\* the annotations of the genomic display: exons, then the CDS intervals
\* clipped to the exon span, sorted by (type, start)
GenomicAnnotations(t) ==
    LET lo == MinStart(t.exons)
        hi == MaxEnd(t.exons)
        kept == SelectSeq(t.cds, LAMBDA c : ~(c[2] < lo \/ c[1] > hi))
    IN SortAnnotations(
          [i \in 1..Len(t.exons) |-> SpanAnnotation(t, t.exons[i], "exon")]
          \o [i \in 1..Len(kept) |->
                SpanAnnotation(t, <<Max(kept[i][1], lo), Min(kept[i][2], hi)>>, "cds")])

NoCdsMessage == "CDS-only requested, but this transcript has no CDS (likely non-coding)."

ErrorResponse(status, error) == [NoResponse EXCEPT !.status = status, !.error = error]

\* the body of get_sequence once the transcript has exons: lines 188-283
SequenceResponse(t, req, g, failing) ==
    LET exons_seq == BuildSplicedSequence(t, "exons", g, failing)
        spliced_exons_seq == IF Falsy(exons_seq) THEN <<>> ELSE exons_seq.val
        feature_display == IF req.include_utr THEN "exons" ELSE "cds"
        display_seq == BuildSplicedSequence(t, feature_display, g, failing)
        genomic_seq == BuildGenomicSequence(t, g, failing)
    IN IF req.include_introns
       THEN IF Falsy(genomic_seq)
            THEN ErrorResponse(500, "Failed to fetch genomic sequence from Ensembl")
            ELSE [status |-> 200, error |-> "", gene_seq |-> genomic_seq.val,
                  spliced_seq |-> IF Falsy(display_seq) THEN <<>> ELSE display_seq.val,
                  spliced_exons_seq |-> spliced_exons_seq,
                  annotations |-> GenomicAnnotations(t)]
       ELSE IF Falsy(display_seq)
            THEN IF feature_display = "cds"
                 THEN ErrorResponse(400, NoCdsMessage)
                 ELSE ErrorResponse(500, "Transcript sequence extraction failed")
            ELSE [status |-> 200, error |-> "", gene_seq |-> display_seq.val,
                  spliced_seq |-> display_seq.val,
                  spliced_exons_seq |-> spliced_exons_seq,
                  annotations |->
                     IF req.include_utr
                     THEN LET cds_ann == CdsAnnotationsInTranscriptCoords(t)
                          IN [i \in 1..Len(cds_ann) |->
                                Annotation(cds_ann[i][1], cds_ann[i][2], "cds")]
                     ELSE <<>>]

\* requests with the default flank lengths (upstream_bp = downstream_bp = 0)
Requests ==
    [gene_name : {"", "TP53"}, transcript_id : {"", "ENST1"},
     include_introns : BOOLEAN, include_utr : BOOLEAN]

\* Ensembl knows the transcript or not, and fails on at most one coordinate
EnsemblAnswers ==
    [found : BOOLEAN, failing : {{}} \cup { {c} : c \in 1..MaxProjCoord }]

RouteChromosome ==
    LET letters == <<"A", "c", "G", "t", "N", "C", "a">>
    IN [i \in 1..MaxProjCoord |-> letters[(i % Len(letters)) + 1]]

\* every CDS interval lies inside an exon, as get_transcript_details derives it
InsideExons(cd, ex) ==
    \A i \in 1..Len(cd) : \E e \in 1..Len(ex) : ex[e][1] <= cd[i][1] /\ cd[i][2] <= ex[e][2]

InitRoute ==
    /\ tpc = "request"
    /\ request \in Requests
    /\ ensembl \in EnsemblAnswers
    /\ response = NoResponse
    /\ \E st \in Strands : \E ex \in DisjointWithin(1, MaxProjCoord, MaxFlankExons) :
          \E cd \in {c \in DisjointWithin(1, MaxProjCoord, 1) : InsideExons(c, ex)} :
             tinfo = [strand |-> st, exons |-> ex, cds |-> cd]
    /\ genome = RouteChromosome
    /\ data = NoData /\ flank_args = NoFlankArgs /\ region_log = <<>> /\ flank = NoFlank
    /\ ServicesIdle
    /\ feature = "exons" /\ blocks = <<>> /\ junctions = <<>> /\ ann = <<>>
    /\ SequenceIdle
    /\ DesignIdle

\* get_sequence: one request, from the JSON body to the response
GetSequence ==
    /\ tpc = "request"
    /\ tpc' = "responded"
    /\ IF request.gene_name = "" \/ request.transcript_id = ""
       THEN /\ response' = ErrorResponse(400, "Please provide gene_name and transcript_id")
            /\ UNCHANGED <<flank_args, blocks, junctions, ann>>
       ELSE IF ~ensembl.found
       THEN /\ response' = ErrorResponse(404, "Transcript not found in Ensembl")
            /\ UNCHANGED <<flank_args, blocks, junctions, ann>>
       ELSE IF tinfo.exons = <<>>
       THEN /\ response' = ErrorResponse(500, "No exon coordinates found for transcript")
            /\ UNCHANGED <<flank_args, blocks, junctions, ann>>
       ELSE LET out == SequenceResponse(tinfo, request, genome, ensembl.failing)
                exon_blocks == BlocksForSplicedSequence(tinfo, "exons")
            IN /\ flank_args' = [upstream_bp |-> 0, downstream_bp |-> 0,
                                 use_cds_anchor |-> tinfo.cds # <<>>]
               /\ blocks' = exon_blocks
               /\ junctions' = JunctionsFromBlocks(exon_blocks)
               /\ ann' = IF out.status = 200 /\ ~request.include_introns /\ request.include_utr
                         THEN CdsAnnotationsInTranscriptCoords(tinfo) ELSE ann
               /\ response' = out
    /\ UNCHANGED <<tinfo, feature, data, genome, region_log, flank, request, ensembl>>
    /\ UNCHANGED <<cvars, bvars, gvars>>
    /\ UNCHANGED <<svars, dvars>>

NextRoute == GetSequence

SpecRoute == InitRoute /\ [][NextRoute]_vars

\* the request reached the display branch in CDS-only spliced mode
CdsOnlyDisplay ==
    /\ tpc = "responded"
    /\ request.gene_name # "" /\ request.transcript_id # ""
    /\ ensembl.found /\ tinfo.exons # <<>>
    /\ ~request.include_introns /\ ~request.include_utr

\* C21: in CDS-only spliced display the "no CDS (likely non-coding)"
\* outcome is reported exactly when the transcript's CDS list is empty; a
\* failed fetch for a transcript with CDS intervals gets another outcome.
C21_NoCdsOnlyWhenEmpty ==
    CdsOnlyDisplay => (response.error = NoCdsMessage <=> tinfo.cds = <<>>)

-----------------------------------------------------------------------------
(* ensembl_api.py: search_gene and get_transcript_details behind           *)
(* functools.lru_cache. An entry is [key, value]; the list runs from the   *)
(* least to the most recently used entry. A value is None (0) or the       *)
(* serial number of the request whose answer it was built from.            *)

Maxsize == 2     \* capacity of each cache in the scenarios (the program's is 256)
MaxLookups == 4  \* lookup calls in one scenario

NotFound == 0

\* the arguments a lookup is called with; search_gene normalises its
\* gene_name after the cache has keyed the call
LookupKeys(fn) ==
    IF fn = "search_gene" THEN {"tp53", "TP53", "BRCA1"} ELSE {"ENST1", "ENST2", "ENST3"}

\* what the Annotation Service answers: an HTTP status and, with 200, the
\* object_type of the record
ServiceAnswers == [status : {200, 404, 500}, object_type : {"Gene", "Transcript"}]

Position(entries, key) ==
    IF \E i \in 1..Len(entries) : entries[i].key = key
    THEN CHOOSE i \in 1..Len(entries) : entries[i].key = key
    ELSE 0

\* a hit makes the entry the most recently used
Touch(entries, i) ==
    SubSeq(entries, 1, i - 1) \o SubSeq(entries, i + 1, Len(entries)) \o <<entries[i]>>

\* variant: a full cache keeps growing
StoreUnbounded(entries, e) == Append(entries, e)

\* a miss stores the result; a full cache drops its least recently used entry
Store(entries, e) ==
    IF Len(entries) >= Maxsize THEN Append(Tail(entries), e) ELSE Append(entries, e)

\* variant: every HTTP error is answered with None
LookupBodySwallowsErrors(fn, answer, serial) ==
    IF answer.status # 200 THEN [outcome |-> "return", value |-> NotFound]
    ELSE IF fn = "search_gene" /\ answer.object_type # "Gene"
    THEN [outcome |-> "return", value |-> NotFound]
    ELSE [outcome |-> "return", value |-> serial]

\* the body of search_gene or get_transcript_details on the answer to its
\* request: None on 404, the HTTPError re-raised on any other failure, None
\* for a symbol that is not a Gene, else the record built from the answer
LookupBody(fn, answer, serial) ==
    IF answer.status = 404 THEN [outcome |-> "return", value |-> NotFound]
    ELSE IF answer.status # 200 THEN [outcome |-> "raise", value |-> NotFound]
    ELSE IF fn = "search_gene" /\ answer.object_type # "Gene"
    THEN [outcome |-> "return", value |-> NotFound]
    ELSE [outcome |-> "return", value |-> serial]

InitLookups ==
    /\ tpc = "idle" /\ tinfo = [strand |-> "+", exons |-> <<>>, cds |-> <<>>]
    /\ feature = "exons" /\ blocks = <<>> /\ junctions = <<>> /\ ann = <<>>
    /\ SequenceIdle
    /\ DesignIdle
    /\ EnsemblIdle

\* one call of a memoised lookup: a hit returns the stored value, a miss
\* runs the body on the service's answer and stores what it returns
CallLookup ==
    /\ lookups < MaxLookups
    /\ \E fn \in LookupFunctions : \E key \in LookupKeys(fn) : \E answer \in ServiceAnswers :
          LET entries == cache[fn]
              i == Position(entries, key)
              out == LookupBody(fn, answer, queries + 1)
          IN IF i # 0
             THEN /\ cache' = [cache EXCEPT ![fn] = Touch(entries, i)]
                  /\ queries' = queries
                  /\ last_call' = [fn |-> fn, key |-> key, hit |-> TRUE, status |-> 0,
                                   outcome |-> "return", value |-> entries[i].value]
             ELSE /\ queries' = queries + 1
                  /\ cache' = IF out.outcome = "raise" THEN cache
                              ELSE [cache EXCEPT ![fn] =
                                      Store(entries, [key |-> key, value |-> out.value])]
                  /\ last_call' = [fn |-> fn, key |-> key, hit |-> FALSE,
                                   status |-> answer.status,
                                   outcome |-> out.outcome, value |-> out.value]
    /\ lookups' = lookups + 1
    /\ UNCHANGED <<data, flank_args, genome, region_log, flank, rvars, bvars, gvars>>
    /\ UNCHANGED <<tvars, svars, dvars>>

NextLookups == CallLookup

SpecLookups == InitLookups /\ [][NextLookups]_vars

-----------------------------------------------------------------------------
(* Properties of the memoised lookups *)

CachedKeys(fn) == {cache[fn][i].key : i \in 1..Len(cache[fn])}

\* the value stored under a cached key
StoredValue(fn, key) == cache[fn][Position(cache[fn], key)].value

\* a lookup call was made in this step
LookupStep == lookups' = lookups + 1

\* C22: each cache holds at most Maxsize entries, one per key; a call whose
\* key is cached returns the stored value and sends no request; a call sends
\* at most one request; an entry leaves a cache only in a step that stores a
\* new key into that cache when it is full, and a value once stored under a
\* key is never replaced while the key stays cached.
C22_BoundedReadThrough ==
    /\ [](\A fn \in LookupFunctions :
            /\ Len(cache[fn]) <= Maxsize
            /\ Cardinality(CachedKeys(fn)) = Len(cache[fn]))
    /\ [][LookupStep =>
            /\ (last_call'.key \in CachedKeys(last_call'.fn)) =>
                  /\ last_call'.hit
                  /\ last_call'.outcome = "return"
                  /\ last_call'.value = StoredValue(last_call'.fn, last_call'.key)
                  /\ queries' = queries
            /\ queries' \in {queries, queries + 1}
            /\ \A fn \in LookupFunctions :
                  /\ \A k \in CachedKeys(fn) \cap CachedKeys(fn)' :
                        StoredValue(fn, k)' = StoredValue(fn, k)
                  /\ (CachedKeys(fn) \ CachedKeys(fn)' # {}) =>
                        /\ Len(cache[fn]) = Maxsize
                        /\ fn = last_call'.fn
                        /\ last_call'.key \in CachedKeys(fn)' \ CachedKeys(fn)
                        /\ Cardinality(CachedKeys(fn) \ CachedKeys(fn)') = 1]_vars

C22_Witness ==
    /\ lookups = 4 /\ queries = 3
    /\ last_call = [fn |-> "get_transcript_details", key |-> "ENST2", hit |-> TRUE,
                    status |-> 0, outcome |-> "return", value |-> 2]
    /\ cache["get_transcript_details"]
          = << [key |-> "ENST3", value |-> 3], [key |-> "ENST2", value |-> 2] >>

\* C23: a lookup that queries the service returns None only for the answer
\* 404 or, in search_gene, for a record that is not a Gene; on any other
\* HTTP failure it raises, leaves both caches as they were and stores
\* nothing under its key, so that the next call with that key is a miss
\* that queries the service again.
C23_ErrorsNotCached ==
    [][LookupStep =>
         /\ (~last_call'.hit /\ last_call'.outcome = "return" /\ last_call'.value = NotFound)
               => (last_call'.status = 404
                     \/ (last_call'.fn = "search_gene" /\ last_call'.status = 200))
         /\ (~last_call'.hit /\ last_call'.status \notin {200, 404})
               => /\ last_call'.outcome = "raise"
                  /\ cache' = cache
                  /\ \A fn \in LookupFunctions :
                        fn = last_call'.fn => last_call'.key \notin CachedKeys(fn)'
         /\ (last_call.outcome = "raise" /\ last_call'.fn = last_call.fn
                /\ last_call'.key = last_call.key)
               => (~last_call'.hit /\ queries' = queries + 1)]_vars

C23_Witness ==
    /\ lookups = 3 /\ queries = 3
    /\ last_call = [fn |-> "search_gene", key |-> "TP53", hit |-> FALSE,
                    status |-> 200, outcome |-> "return", value |-> 3]
    /\ cache["search_gene"] = << [key |-> "BRCA1", value |-> NotFound],
                                 [key |-> "TP53", value |-> 3] >>

-----------------------------------------------------------------------------
(* blast_api.py: poll_blast and run_blast. Times are in seconds.           *)

PollInterval == 10   \* _POLL_INTERVAL
DefaultMaxWait == 180   \* _MAX_WAIT

MaxWait == 35        \* largest max_wait of a direct poll_blast call

\* the statuses a SearchInfo response reports
Statuses == {"READY", "FAILED", "UNKNOWN", "WAITING"}

Sleep == [op |-> "sleep", status |-> ""]
StatusRequest(status) == [op |-> "status", status |-> status]
SubmitRequest == [op |-> "submit", status |-> ""]
ResultsRequest == [op |-> "results", status |-> ""]

\* variant: the loop runs once more when elapsed has reached max_wait
KeepPollingInclusive(elapsed, max_wait) == elapsed <= max_wait

\* the loop test of poll_blast
KeepPolling(elapsed, max_wait) == elapsed < max_wait

InitBlast ==
    /\ bpc \in {"submit", "poll"}
    /\ blast \in [caller : {"run_blast", "poll_blast"}, max_wait : 0..MaxWait, elapsed : {0}]
                   \cup {[caller |-> "run_blast", max_wait |-> DefaultMaxWait, elapsed |-> 0]}
    /\ (bpc = "submit") = (blast.caller = "run_blast")
    /\ blast.caller = "run_blast" => blast.max_wait = DefaultMaxWait
    /\ blast_log = <<>> /\ blast_result = ""
    /\ data = NoData /\ flank_args = NoFlankArgs /\ genome = <<>>
    /\ region_log = <<>> /\ flank = NoFlank
    /\ RouteIdle
    /\ CacheIdle
    /\ GetIdle
    /\ TranscriptIdle
    /\ SequenceIdle
    /\ DesignIdle

\* run_blast, lines 229-231: submit_blast answers with a RID or fails
SubmitBlast ==
    /\ bpc = "submit"
    /\ blast_log' = Append(blast_log, SubmitRequest)
    /\ \E accepted \in BOOLEAN :
          IF accepted
          THEN bpc' = "poll" /\ blast_result' = blast_result
          ELSE bpc' = "raised" /\ blast_result' = "RuntimeError"
    /\ UNCHANGED blast
    /\ UNCHANGED <<data, flank_args, genome, region_log, flank, rvars, cvars, gvars>>
    /\ UNCHANGED <<tvars, svars, dvars>>

\* one iteration of the while loop of poll_blast: sleep, request, decide
PollOnce ==
    /\ bpc = "poll"
    /\ KeepPolling(blast.elapsed, blast.max_wait)
    /\ blast' = [blast EXCEPT !.elapsed = blast.elapsed + PollInterval]
    /\ \E status \in Statuses :
          /\ blast_log' = blast_log \o <<Sleep, StatusRequest(status)>>
          /\ IF status = "READY"
             THEN /\ bpc' = IF blast.caller = "run_blast" THEN "retrieve" ELSE "returned"
                  /\ blast_result' = IF blast.caller = "run_blast" THEN blast_result ELSE "True"
             ELSE IF status \in {"FAILED", "UNKNOWN"}
             THEN bpc' = "raised" /\ blast_result' = "RuntimeError"
             ELSE bpc' = bpc /\ blast_result' = blast_result
    /\ UNCHANGED <<data, flank_args, genome, region_log, flank, rvars, cvars, gvars>>
    /\ UNCHANGED <<tvars, svars, dvars>>

\* the loop of poll_blast ends without a decision: line 78
PollTimeout ==
    /\ bpc = "poll"
    /\ ~KeepPolling(blast.elapsed, blast.max_wait)
    /\ bpc' = "raised"
    /\ blast_result' = "TimeoutError"
    /\ UNCHANGED <<blast, blast_log>>
    /\ UNCHANGED <<data, flank_args, genome, region_log, flank, rvars, cvars, gvars>>
    /\ UNCHANGED <<tvars, svars, dvars>>

\* run_blast, lines 241-242: the results are fetched and parsed
RetrieveResults ==
    /\ bpc = "retrieve"
    /\ blast_log' = Append(blast_log, ResultsRequest)
    /\ \E fetched \in BOOLEAN :
          IF fetched
          THEN bpc' = "returned" /\ blast_result' = "hits"
          ELSE bpc' = "raised" /\ blast_result' = "HTTPError"
    /\ UNCHANGED blast
    /\ UNCHANGED <<data, flank_args, genome, region_log, flank, rvars, cvars, gvars>>
    /\ UNCHANGED <<tvars, svars, dvars>>

NextBlast == SubmitBlast \/ PollOnce \/ PollTimeout \/ RetrieveResults

SpecBlast == InitBlast /\ [][NextBlast]_vars

\* every sleep and every request returns: the sleep is finite and each
\* request carries a timeout
SpecBlastFair == SpecBlast /\ WF_vars(NextBlast)

-----------------------------------------------------------------------------
(* Properties of the BLAST polling *)

StatusIndexes == {i \in 1..Len(blast_log) : blast_log[i].op = "status"}

\* ceil(max_wait / _POLL_INTERVAL), 0 for a max_wait that is not positive
PollBudget == IF blast.max_wait <= 0 THEN 0 ELSE (blast.max_wait + PollInterval - 1) \div PollInterval

\* poll_blast has ended, in either caller
PollEnded == bpc \in {"retrieve", "returned", "raised"} /\ StatusIndexes # {}

LastStatus == blast_log[CHOOSE i \in StatusIndexes : \A k \in StatusIndexes : k <= i].status

EarlierAllWaiting ==
    \A i \in StatusIndexes :
       (\E k \in StatusIndexes : k > i) => blast_log[i].status = "WAITING"

\* C29: poll_blast ends after at most ceil(max_wait / _POLL_INTERVAL) status
\* requests, each directly after a sleep of _POLL_INTERVAL; it returns True
\* only on a READY response, raises RuntimeError at the first FAILED or
\* UNKNOWN response, and raises TimeoutError only after the whole budget of
\* responses was WAITING; run_blast asks for the results only after a READY
\* response; and every call ends.
C29_PollBlastBounded ==
    /\ [](/\ Cardinality(StatusIndexes) <= PollBudget
          /\ Cardinality(StatusIndexes) * PollInterval = blast.elapsed
          /\ \A i \in StatusIndexes : i > 1 /\ blast_log[i - 1] = Sleep
          /\ EarlierAllWaiting
          /\ (blast_result = "True" \/ bpc = "retrieve") => LastStatus = "READY"
          /\ (\E i \in StatusIndexes : blast_log[i].status \in {"FAILED", "UNKNOWN"})
                => (bpc = "raised" /\ blast_result = "RuntimeError")
          /\ (\E i \in StatusIndexes : blast_log[i].status = "READY")
                => blast_result # "TimeoutError" /\ blast_result # "RuntimeError"
          /\ blast_result = "TimeoutError" =>
                /\ Cardinality(StatusIndexes) = PollBudget
                /\ \A i \in StatusIndexes : blast_log[i].status = "WAITING"
          /\ \A i \in 1..Len(blast_log) :
                blast_log[i].op = "results" =>
                   \E k \in StatusIndexes : k < i /\ blast_log[k].status = "READY")
    /\ <>(bpc \in {"returned", "raised"})

C29_Witness ==
    /\ bpc = "raised" /\ blast_result = "TimeoutError"
    /\ blast.caller = "poll_blast" /\ blast.max_wait = 25
    /\ Cardinality(StatusIndexes) = 3 /\ blast.elapsed = 30

-----------------------------------------------------------------------------
(* ensembl_api.py: _get. Times are in milliseconds.                        *)

MinInterval == 70           \* _MIN_INTERVAL, 0.07 s
DefaultRetryAfter == 1000   \* resp.headers.get("Retry-After", 1)

MaxGets == 3       \* _get calls in one scenario
Epoch == 1000      \* time.time() when the process starts

\* the Retry-After header of a 429 response: absent, or a number of seconds
RetryAfterHeaders ==
    {[present |-> FALSE, ms |-> 0]} \cup {[present |-> TRUE, ms |-> m] : m \in {0, 50, 2000}}

\* float(resp.headers.get("Retry-After", 1))
RetryAfter(h) == IF h.present THEN h.ms ELSE DefaultRetryAfter

\* time between two _get calls, and the time a request takes
IdleTimes == {0, 100}
RequestTimes == {10}

HttpRequest(start, received, status, retry) ==
    [start |-> start, received |-> received, status |-> status, retry |-> retry]

InitGet ==
    /\ clock = Epoch /\ last_request_time = 0 /\ get_calls = 0 /\ get_log = <<>>
    /\ data = NoData /\ flank_args = NoFlankArgs /\ genome = <<>>
    /\ region_log = <<>> /\ flank = NoFlank
    /\ RouteIdle
    /\ CacheIdle
    /\ BlastIdle
    /\ TranscriptIdle
    /\ SequenceIdle
    /\ DesignIdle

\* one call of _get, some idle time after the previous one: wait, request,
\* and on a 429 sleep Retry-After and request once more
Get ==
    /\ get_calls < MaxGets
    /\ \E idle \in IdleTimes : \E took \in RequestTimes : \E status \in {200, 429, 500} :
       \E h \in RetryAfterHeaders : \E status2 \in {200, 429} :
          LET now == clock + idle
              wait == MinInterval - (now - last_request_time)
              start == IF wait > 0 THEN now + wait ELSE now
              received == start + took
              first == HttpRequest(start, received, status, FALSE)
              start2 == received + RetryAfter(h)
              received2 == start2 + took
              second == HttpRequest(start2, received2, status2, TRUE)
          IN IF status = 429
             THEN /\ get_log' = get_log \o <<first, second>>
                  /\ last_request_time' = received2
                  /\ clock' = received2
             ELSE /\ get_log' = Append(get_log, first)
                  /\ last_request_time' = received
                  /\ clock' = received
    /\ get_calls' = get_calls + 1
    /\ UNCHANGED <<data, flank_args, genome, region_log, flank, rvars, cvars, bvars>>
    /\ UNCHANGED <<tvars, svars, dvars>>

NextGet == Get

SpecGet == InitGet /\ [][NextGet]_vars

\* C30: every HTTP request _get issues, the retry after a 429 included,
\* starts at least _MIN_INTERVAL after the previous response was received.
C30_MinIntervalBetweenRequests ==
    \A i \in 2..Len(get_log) : get_log[i].start >= get_log[i - 1].received + MinInterval

=============================================================================
